---- MODULE Spec2Model ----
(***************************************************************************)
(* A model of eocene: the Volcano operators (operators.rs), the query      *)
(* executor (main.rs), the SQL tokenizer and parser (sql.rs) and the       *)
(* native filter routine (codegen.rs).                                     *)
(*                                                                         *)
(* Text is a sequence of one-character strings, a Row is a sequence of     *)
(* texts (Row.items), an i64 is four 16-bit limbs, most significant first, *)
(* in two's complement.                                                    *)
(***************************************************************************)
EXTENDS Integers, Sequences, FiniteSets, TLC

VARIABLES
    text,       \* the query string handed to Tokenizer::new (<<>> when none)
    query,      \* the sql::Query the parser returned (NoQuery before)
    data,       \* the caller's data set: the rows handed to plan or to the routine
    build,      \* how the caller of the operators built its pipeline
    pipeline,   \* the root operator, owning its upstream operators
    pc,         \* the caller's position
    results,    \* the rows the root's next() has returned so far
    sinceOpen,  \* the rows the root's next() has returned since the last open()
    last,       \* what the latest call on the root was and returned
    calls,      \* how many open(), next() and close() calls the caller made
    cpu,        \* registers, flags and instruction pointer of the native routine
    mem         \* the memory the routine runs on: the Int64Row's items and the stack

vars == <<text, query, data, build, pipeline, pc, results, sinceOpen, last, calls, cpu, mem>>

---------------------------------------------------------------------------
(* Text: characters and their byte order.                                  *)

Ascii ==
    <<" ", "!", "'", "(", ")", "*", "+", ",", "-", ".",
      "0", "1", "2", "3", "4", "5", "6", "7", "8", "9",
      ";", "<", "=", ">",
      "A", "B", "C", "D", "E", "F", "G", "H", "I", "J", "K", "L", "M",
      "N", "O", "P", "Q", "R", "S", "T", "U", "V", "W", "X", "Y", "Z",
      "_",
      "a", "b", "c", "d", "e", "f", "g", "h", "i", "j", "k", "l", "m",
      "n", "o", "p", "q", "r", "s", "t", "u", "v", "w", "x", "y", "z">>

Ord(c) == CHOOSE i \in 1..Len(Ascii) : Ascii[i] = c

Digits == {"0", "1", "2", "3", "4", "5", "6", "7", "8", "9"}

Upper ==
    {"A", "B", "C", "D", "E", "F", "G", "H", "I", "J", "K", "L", "M",
     "N", "O", "P", "Q", "R", "S", "T", "U", "V", "W", "X", "Y", "Z"}

Lower ==
    {"a", "b", "c", "d", "e", "f", "g", "h", "i", "j", "k", "l", "m",
     "n", "o", "p", "q", "r", "s", "t", "u", "v", "w", "x", "y", "z"}

IsAlphabetic(c) == c \in Upper \cup Lower

IsAlphanumeric(c) == c \in Upper \cup Lower \cup Digits

IsWhitespace(c) == c = " "

DigitVal(c) == Ord(c) - Ord("0")

DigitChar(d) == Ascii[Ord("0") + d]

ToLowerChar(c) == IF c \in Upper THEN Ascii[Ord(c) - Ord("A") + Ord("a")] ELSE c

ToLowercase(s) == [i \in 1..Len(s) |-> ToLowerChar(s[i])]

\* str's Ord: bytewise lexicographic, a proper prefix is smaller.
RECURSIVE StrCmp(_, _)
StrCmp(a, b) ==
    IF a = <<>> /\ b = <<>> THEN "Equal"
    ELSE IF a = <<>> THEN "Less"
    ELSE IF b = <<>> THEN "Greater"
    ELSE IF Ord(a[1]) < Ord(b[1]) THEN "Less"
    ELSE IF Ord(a[1]) > Ord(b[1]) THEN "Greater"
    ELSE StrCmp(Tail(a), Tail(b))

---------------------------------------------------------------------------
(* i64: four 16-bit limbs, most significant first, two's complement.       *)

Limb == 65536

SignBit == 32768

Zero64 == <<0, 0, 0, 0>>

\* n in 0 .. 2^31 - 1
Nat64(n) == <<0, 0, n \div Limb, n % Limb>>

IsNeg64(a) == a[1] >= SignBit

\* a - b modulo 2^64, and the borrow out of bit 63 (the carry flag of cmp/sub).
Sub64(a, b) ==
    LET d4 == a[4] - b[4]
        w4 == IF d4 < 0 THEN 1 ELSE 0
        d3 == a[3] - b[3] - w4
        w3 == IF d3 < 0 THEN 1 ELSE 0
        d2 == a[2] - b[2] - w3
        w2 == IF d2 < 0 THEN 1 ELSE 0
        d1 == a[1] - b[1] - w2
        w1 == IF d1 < 0 THEN 1 ELSE 0
    IN  [val |-> <<d1 + w1 * Limb, d2 + w2 * Limb, d3 + w3 * Limb, d4 + w4 * Limb>>,
         borrow |-> w1 = 1]

Neg64(a) == Sub64(Zero64, a).val

\* Negative small integers, for the tests' inputs.
Int64(n) == IF n >= 0 THEN Nat64(n) ELSE Neg64(Nat64(-n))

\* a * 10 + d as an unsigned 64-bit value, and whether it left 64 bits.
MulAdd10(a, d) ==
    LET p4 == a[4] * 10 + d
        p3 == a[3] * 10 + (p4 \div Limb)
        p2 == a[2] * 10 + (p3 \div Limb)
        p1 == a[1] * 10 + (p2 \div Limb)
    IN  [val |-> <<p1 % Limb, p2 % Limb, p3 % Limb, p4 % Limb>>,
         overflow |-> p1 \div Limb > 0]

\* Unsigned division by ten: quotient and remainder.
DivMod10(a) ==
    LET c1 == a[1]
        c2 == (c1 % 10) * Limb + a[2]
        c3 == (c2 % 10) * Limb + a[3]
        c4 == (c3 % 10) * Limb + a[4]
    IN  [quot |-> <<c1 \div 10, c2 \div 10, c3 \div 10, c4 \div 10>>, rem |-> c4 % 10]

\* Unsigned order.
ULt64(a, b) ==
    \E i \in 1..4 : a[i] < b[i] /\ \A j \in 1..(i - 1) : a[j] = b[j]

\* i64's PartialOrd: signed order.
Lt64(a, b) == IF IsNeg64(a) # IsNeg64(b) THEN IsNeg64(a) ELSE ULt64(a, b)

\* The decimal digits of an unsigned 64-bit value, no leading zero.
RECURSIVE UDec(_)
UDec(a) ==
    LET qr == DivMod10(a)
    IN  IF qr.quot = Zero64 THEN <<DigitChar(qr.rem)>>
        ELSE UDec(qr.quot) \o <<DigitChar(qr.rem)>>

\* i64::to_string
ToString64(a) == IF IsNeg64(a) THEN <<"-">> \o UDec(Neg64(a)) ELSE UDec(a)

\* The digits of s accumulated as an unsigned value; ok is FALSE on a character
\* that is no digit and on leaving 64 bits.
RECURSIVE ParseDigits(_, _)
ParseDigits(s, acc) ==
    IF s = <<>> THEN [ok |-> TRUE, val |-> acc]
    ELSE IF s[1] \notin Digits THEN [ok |-> FALSE, val |-> Zero64]
    ELSE LET m == MulAdd10(acc, DigitVal(s[1]))
         IN  IF m.overflow THEN [ok |-> FALSE, val |-> Zero64]
             ELSE ParseDigits(Tail(s), m.val)

\* str::parse::<i64>: an optional sign, then digits only; Err on an empty string,
\* a lone sign, a character that is no digit, or a value outside i64.
ParseI64(s) ==
    LET bad == [ok |-> FALSE, val |-> Zero64]
    IN  IF s = <<>> THEN bad
        ELSE IF Len(s) = 1 /\ s[1] \in {"+", "-"} THEN bad
        ELSE IF s[1] = "-"
             THEN LET m == ParseDigits(Tail(s), Zero64)
                  IN  IF m.ok /\ (~IsNeg64(m.val) \/ m.val = <<SignBit, 0, 0, 0>>)
                      THEN [ok |-> TRUE, val |-> Neg64(m.val)]
                      ELSE bad
             ELSE LET m == ParseDigits(IF s[1] = "+" THEN Tail(s) ELSE s, Zero64)
                  IN  IF m.ok /\ ~IsNeg64(m.val) THEN m ELSE bad

---------------------------------------------------------------------------
(* Rows (row.rs) and expressions (sql::Expr).                              *)

\* Row::get: Option<&str>, index from 0.
RowGet(row, index) ==
    IF index < Len(row) THEN [some |-> TRUE, s |-> row[index + 1]]
    ELSE [some |-> FALSE, s |-> <<>>]

\* Option<&str>'s Ord: None is less than Some, Some by the strings.
OptCmp(a, b) ==
    IF ~a.some /\ ~b.some THEN "Equal"
    ELSE IF ~a.some THEN "Less"
    ELSE IF ~b.some THEN "Greater"
    ELSE StrCmp(a.s, b.s)

Column(name) == [tag |-> "Column", name |-> name]

Value(v) == [tag |-> "Value", val |-> v]

Varchar(s) == [tag |-> "Varchar", s |-> s]

Comparison(l, op, r) == [tag |-> "Comparison", left |-> l, op |-> op, right |-> r]

And(l, r) == [tag |-> "And", left |-> l, right |-> r]

Or(l, r) == [tag |-> "Or", left |-> l, right |-> r]

Not(e) == [tag |-> "Not", expr |-> e]

\* The hardcoded schema: id, name, role, salary at 0..3.
IdCol == <<"i", "d">>

NameCol == <<"n", "a", "m", "e">>

RoleCol == <<"r", "o", "l", "e">>

SalaryCol == <<"s", "a", "l", "a", "r", "y">>

SchemaColumns == <<IdCol, NameCol, RoleCol, SalaryCol>>

InSchema(name) == \E i \in 1..Len(SchemaColumns) : SchemaColumns[i] = name

\* The index the match arms give a column name (only for a name of the schema).
ColumnIndex(name) == (CHOOSE i \in 1..Len(SchemaColumns) : SchemaColumns[i] = name) - 1

\* QueryExecutor::resolve: the string an operand stands for; ok is FALSE where the
\* code panics (a column outside the schema, a row without the field, an
\* expression that is no operand).
Resolve(expr, row) ==
    LET panic == [ok |-> FALSE, s |-> <<>>]
    IN  CASE expr.tag = "Column" ->
                IF InSchema(expr.name) /\ ColumnIndex(expr.name) < Len(row)
                THEN [ok |-> TRUE, s |-> RowGet(row, ColumnIndex(expr.name)).s]
                ELSE panic
          [] expr.tag = "Value" -> [ok |-> TRUE, s |-> ToString64(expr.val)]
          [] expr.tag = "Varchar" -> [ok |-> TRUE, s |-> expr.s]
          [] OTHER -> panic

\* The > of eval taken as >=.
GreaterOrEqualParsed(a, b) ==
    IF ~a.ok \/ ~b.ok THEN "panic" ELSE IF Lt64(a.val, b.val) THEN "false" ELSE "true"

\* left.parse::<i64>().unwrap() > right.parse::<i64>().unwrap(), a and b being
\* the two parse results: a panic when one is an Err.
GreaterParsed(a, b) ==
    IF ~a.ok \/ ~b.ok THEN "panic" ELSE IF Lt64(b.val, a.val) THEN "true" ELSE "false"

\* left.parse::<i64>().unwrap() < right.parse::<i64>().unwrap()
LessParsed(a, b) ==
    IF ~a.ok \/ ~b.ok THEN "panic" ELSE IF Lt64(a.val, b.val) THEN "true" ELSE "false"

\* The match on the operator of a Comparison, l and r being the resolved sides.
Compare(op, l, r) ==
    CASE op = ">" -> GreaterParsed(ParseI64(l), ParseI64(r))
      [] op = "<" -> LessParsed(ParseI64(l), ParseI64(r))
      [] op = "=" -> IF l = r THEN "true" ELSE "false"
      [] OTHER -> "false"

\* A Comparison whose sides resolved to l and r (ok is FALSE for a panic).
Compared(op, l, r) == IF ~l.ok \/ ~r.ok THEN "panic" ELSE Compare(op, l.s, r.s)

RECURSIVE Eval(_, _)

\* An eval whose And and Or evaluate both sides before combining them.
EvalEager(expr, row) ==
    CASE expr.tag \in {"Column", "Varchar", "Value"} -> "true"
      [] expr.tag \in {"And", "Or"} ->
            LET l == Eval(expr.left, row)
                r == Eval(expr.right, row)
            IN  IF l = "panic" \/ r = "panic" THEN "panic"
                ELSE IF expr.tag = "And"
                THEN (IF l = "true" /\ r = "true" THEN "true" ELSE "false")
                ELSE (IF l = "true" \/ r = "true" THEN "true" ELSE "false")
      [] expr.tag = "Comparison" ->
            Compared(expr.op, Resolve(expr.left, row), Resolve(expr.right, row))
      [] OTHER -> "panic"

\* An eval that resolves a bare column and takes a bare 0 as false.
EvalResolvesBare(expr, row) ==
    CASE expr.tag = "Column" -> (IF Resolve(expr, row).ok THEN "true" ELSE "panic")
      [] expr.tag = "Value" -> (IF expr.val = Zero64 THEN "false" ELSE "true")
      [] expr.tag = "Varchar" -> "true"
      [] expr.tag = "And" ->
            LET l == Eval(expr.left, row)
            IN  IF l = "true" THEN Eval(expr.right, row) ELSE l
      [] expr.tag = "Or" ->
            LET l == Eval(expr.left, row)
            IN  IF l = "false" THEN Eval(expr.right, row) ELSE l
      [] expr.tag = "Comparison" ->
            Compared(expr.op, Resolve(expr.left, row), Resolve(expr.right, row))
      [] OTHER -> "panic"

\* QueryExecutor::eval: "true", "false" or "panic".
Eval(expr, row) ==
    CASE expr.tag \in {"Column", "Varchar", "Value"} -> "true"
      [] expr.tag = "And" ->
            LET l == Eval(expr.left, row)
            IN  IF l = "true" THEN Eval(expr.right, row) ELSE l
      [] expr.tag = "Or" ->
            LET l == Eval(expr.left, row)
            IN  IF l = "false" THEN Eval(expr.right, row) ELSE l
      [] expr.tag = "Comparison" ->
            Compared(expr.op, Resolve(expr.left, row), Resolve(expr.right, row))
      [] OTHER -> "panic"

---------------------------------------------------------------------------
(* The Volcano operators (operators.rs). An operator is a record owning    *)
(* its upstream operator(s); g records the calls it has received.          *)

\* What an operator has been asked and has answered so far: the open(), next()
\* and close() calls it received, whether a next() arrived before any open(),
\* whether it has returned end-of-stream (ever, and since its last open()),
\* whether it was asked again after that and returned a row (revived) or
\* end-of-stream (repeated), and how many rows it returned.
NewCalls ==
    [opens |-> 0, nexts |-> 0, closes |-> 0, early |-> FALSE,
     eosEver |-> FALSE, eosOpen |-> FALSE,
     revived |-> FALSE, revivedOpen |-> FALSE, repeated |-> FALSE, out |-> 0]

OnNext(g, st) ==
    [g EXCEPT !.nexts = @ + 1,
              !.early = @ \/ g.opens = 0,
              !.eosEver = @ \/ st = "none",
              !.eosOpen = @ \/ st = "none",
              !.revived = @ \/ (g.eosEver /\ st = "some"),
              !.revivedOpen = @ \/ (g.eosOpen /\ st = "some"),
              !.repeated = @ \/ (g.eosOpen /\ st = "none"),
              !.out = @ + (IF st = "some" THEN 1 ELSE 0)]

OnOpen(g) == [g EXCEPT !.opens = @ + 1, !.eosOpen = FALSE]

OnClose(g) == [g EXCEPT !.closes = @ + 1]

\* Option<Row> as next() returns it, with the operator as the call leaves it;
\* st is "panic" where the call does not return.
Some(row, op) == [st |-> "some", row |-> row, op |-> op]

None(op) == [st |-> "none", row |-> <<>>, op |-> op]

Panic(op) == [st |-> "panic", row |-> <<>>, op |-> op]

\* The join conditions of the tests, as closures over (left, right).
JoinCondition(cond, l, r) ==
    CASE cond = "eq0" -> RowGet(l, 0) = RowGet(r, 0)
      [] cond = "ne0" -> RowGet(l, 0) # RowGet(r, 0)
      [] cond = "all" -> TRUE
      [] OTHER -> FALSE

\* A comparator that compares two fields as numbers where both parse as i64.
RowCmpByNumber(a, b, col) ==
    IF /\ RowGet(a, col).some /\ RowGet(b, col).some
       /\ ParseI64(RowGet(a, col).s).ok /\ ParseI64(RowGet(b, col).s).ok
    THEN (IF Lt64(ParseI64(RowGet(a, col).s).val, ParseI64(RowGet(b, col).s).val)
          THEN "Less"
          ELSE IF ParseI64(RowGet(a, col).s).val = ParseI64(RowGet(b, col).s).val
          THEN "Equal" ELSE "Greater")
    ELSE OptCmp(RowGet(a, col), RowGet(b, col))

\* The comparators of plan and of the tests: |a, b| a.get(col).cmp(&b.get(col)).
RowCmp(a, b, col) == OptCmp(RowGet(a, col), RowGet(b, col))

\* Vec::sort_by: a stable sort. Each row goes behind the rows that do not
\* compare greater than it.
RECURSIVE InsertStable(_, _, _)

\* A sort that puts a row before the rows it compares equal to.
InsertBeforeTies(s, x, col) ==
    IF s = <<>> THEN <<x>>
    ELSE IF RowCmp(x, Head(s), col) # "Greater" THEN <<x>> \o s
    ELSE <<Head(s)>> \o InsertStable(Tail(s), x, col)

InsertStable(s, x, col) ==
    IF s = <<>> THEN <<x>>
    ELSE IF RowCmp(x, Head(s), col) = "Less" THEN <<x>> \o s
    ELSE <<Head(s)>> \o InsertStable(Tail(s), x, col)

RECURSIVE SortBy(_, _)

\* A sort that keeps one of the rows that compare equal.
SortByDistinct(rows, col) ==
    IF rows = <<>> THEN <<>>
    ELSE IF \E i \in 1..(Len(rows) - 1) : RowCmp(rows[i], rows[Len(rows)], col) = "Equal"
    THEN SortBy(SubSeq(rows, 1, Len(rows) - 1), col)
    ELSE InsertStable(SortBy(SubSeq(rows, 1, Len(rows) - 1), col), rows[Len(rows)], col)

SortBy(rows, col) ==
    IF rows = <<>> THEN <<>>
    ELSE InsertStable(SortBy(SubSeq(rows, 1, Len(rows) - 1), col), rows[Len(rows)], col)

RECURSIVE NextOp(_), OpenOp(_), CloseOp(_), Drain(_, _), FilterNext(_), JoinNext(_)

\* Scan::new: the rows are copied (to_vec) into the operator's own iterator.
ScanNew(rows) == [kind |-> "Scan", rows |-> rows, g |-> NewCalls]

\* Scan::next taking the rows from the back of the iterator.
ScanNextBack(op) ==
    IF op.rows = <<>> THEN None(op)
    ELSE Some(op.rows[Len(op.rows)],
              [op EXCEPT !.rows = SubSeq(@, 1, Len(@) - 1)])

ScanNext(op) ==
    IF op.rows = <<>> THEN None(op)
    ELSE Some(Head(op.rows), [op EXCEPT !.rows = Tail(@)])

\* Filter::new; evals counts the predicate's evaluations.
FilterNew(operator, predicate) ==
    [kind |-> "Filter", input |-> operator, predicate |-> predicate, evals |-> 0,
     g |-> NewCalls]

\* Filter::next returning the rows the predicate is false on.
FilterTestedNegated(op, row, e) ==
    IF e = "panic" THEN Panic(op)
    ELSE IF e = "false" THEN Some(row, op)
    ELSE FilterNext(op)

\* Filter::next evaluating the predicate a second time on a row it rejects.
FilterTestedTwice(op, row, e) ==
    IF e = "panic" THEN Panic(op)
    ELSE IF e = "true" THEN Some(row, op)
    ELSE FilterNext([op EXCEPT !.evals = @ + 1])

\* Filter::next, the predicate's answer e on the pulled row: the row is returned,
\* or the while loop takes its next turn.
FilterTested(op, row, e) ==
    IF e = "panic" THEN Panic(op)
    ELSE IF e = "true" THEN Some(row, op)
    ELSE FilterNext(op)

\* Filter::next, the upstream's answer r: the predicate is evaluated on a row.
FilterPulled(op, r) ==
    IF r.st = "none" THEN None([op EXCEPT !.input = r.op])
    ELSE IF r.st = "panic" THEN Panic([op EXCEPT !.input = r.op])
    ELSE FilterTested([op EXCEPT !.input = r.op, !.evals = @ + 1], r.row,
                      Eval(op.predicate, r.row))

\* Filter::next: the while loop, one upstream row per turn.
FilterNext(op) == FilterPulled(op, NextOp(op.input))

ProjectNew(operator, columns) ==
    [kind |-> "Project", input |-> operator, columns |-> columns, g |-> NewCalls]

\* Project::next with the fields in the order of the row, not of the columns.
RECURSIVE ProjectRowInRowOrder(_, _)
ProjectRowInRowOrder(row, columns) ==
    IF row = <<>> THEN <<>>
    ELSE (IF \E j \in 1..Len(columns) : columns[j] = 0 THEN <<Head(row)>> ELSE <<>>)
         \o ProjectRowInRowOrder(Tail(row), [j \in 1..Len(columns) |-> columns[j] - 1])

\* The filter_map of Project::next: a column the row does not have is skipped.
RECURSIVE ProjectRow(_, _)
ProjectRow(row, columns) ==
    IF columns = <<>> THEN <<>>
    ELSE (IF Head(columns) < Len(row) THEN <<RowGet(row, Head(columns)).s>> ELSE <<>>)
         \o ProjectRow(row, Tail(columns))

\* Project::next, the upstream's answer r.
ProjectPulled(op, r) ==
    IF r.st = "some" THEN Some(ProjectRow(r.row, op.columns), [op EXCEPT !.input = r.op])
    ELSE IF r.st = "none" THEN None([op EXCEPT !.input = r.op])
    ELSE Panic([op EXCEPT !.input = r.op])

ProjectNext(op) == ProjectPulled(op, NextOp(op.input))

LimitNew(operator, limit) ==
    [kind |-> "Limit", input |-> operator, limit |-> limit, count |-> 0, g |-> NewCalls]

\* Limit::next counting every answer of the upstream, end-of-stream too.
LimitPulledCountsAnswers(op, r) ==
    IF r.st = "some" THEN Some(r.row, [op EXCEPT !.input = r.op, !.count = @ + 1])
    ELSE IF r.st = "none" THEN None([op EXCEPT !.input = r.op, !.count = @ + 1])
    ELSE Panic([op EXCEPT !.input = r.op])

\* Limit::next, the upstream's answer r: a row is counted and passed on.
LimitPulled(op, r) ==
    IF r.st = "some" THEN Some(r.row, [op EXCEPT !.input = r.op, !.count = @ + 1])
    ELSE IF r.st = "none" THEN None([op EXCEPT !.input = r.op])
    ELSE Panic([op EXCEPT !.input = r.op])

\* Limit::next with the upstream pulled before the count is compared.
LimitNextPullsFirst(op) ==
    IF op.limit = 0 \/ op.count >= op.limit
    THEN None([op EXCEPT !.input = NextOp(op.input).op])
    ELSE LimitPulled(op, NextOp(op.input))

\* Limit::next with the count compared by <=.
LimitNextInclusive(op) ==
    IF op.count <= op.limit THEN LimitPulled(op, NextOp(op.input)) ELSE None(op)

LimitNext(op) ==
    IF op.count < op.limit THEN LimitPulled(op, NextOp(op.input)) ELSE None(op)

\* One turn of while let Some(row) = input.next() { rows.push(row) }, r being
\* the answer of input.next().
Drained(acc, r) ==
    IF r.st = "some" THEN Drain(r.op, Append(acc, r.row))
    ELSE [st |-> r.st, rows |-> acc, op |-> r.op]

\* while let Some(row) = input.next() { rows.push(row) }
Drain(op, acc) == Drained(acc, NextOp(op))

\* Sort::new, its input drained (d): the rows are sorted, and the input is
\* dropped when new returns (dropped keeps it as it was then). op is a Sort
\* unless st is "panic".
SortDrained(d, col) ==
    [st |-> IF d.st = "panic" THEN "panic" ELSE "ok",
     op |-> [kind |-> "Sort", sorted_rows |-> SortBy(d.rows, col), dropped |-> d.op,
             g |-> NewCalls]]

\* Sort::new drains its input and sorts.
SortNew(input, col) == SortDrained(Drain(input, <<>>), col)

SortNext(op) ==
    IF op.sorted_rows = <<>> THEN None(op)
    ELSE Some(Head(op.sorted_rows), [op EXCEPT !.sorted_rows = Tail(@)])

JoinNew(left, right, join_condition) ==
    [kind |-> "Join", left |-> left, right |-> right, join_condition |-> join_condition,
     left_rows |-> <<>>, right_rows |-> <<>>, left_index |-> 0, right_index |-> 0,
     g |-> NewCalls]

\* Join::open leaving the two indices where they are.
JoinLoadedRightKeepsPlace(op, r) ==
    [st |-> IF r.st = "panic" THEN "panic" ELSE "ok",
     op |-> [op EXCEPT !.right = r.op, !.right_rows = r.rows]]

\* Join::open after load_right_rows (r): both indices to 0.
JoinLoadedRight(op, r) ==
    [st |-> IF r.st = "panic" THEN "panic" ELSE "ok",
     op |-> [op EXCEPT !.right = r.op, !.right_rows = r.rows,
                       !.left_index = 0, !.right_index = 0]]

\* Join::open after load_left_rows (l): load_right_rows.
JoinLoadedLeft(op, l) ==
    IF l.st = "panic"
    THEN [st |-> "panic", op |-> [op EXCEPT !.left = l.op, !.left_rows = l.rows]]
    ELSE JoinLoadedRight([op EXCEPT !.left = l.op, !.left_rows = l.rows],
                         Drain(op.right, op.right_rows))

\* Join::open: load_left_rows, load_right_rows, then both indices to 0.
JoinOpen(op) == JoinLoadedLeft(op, Drain(op.left, op.left_rows))

\* Join::next with both indices back to 0 where the rows are exhausted.
JoinNextWraps(op) ==
    IF op.left_index < Len(op.left_rows)
    THEN IF op.right_index < Len(op.right_rows)
         THEN IF JoinCondition(op.join_condition, op.left_rows[op.left_index + 1],
                               op.right_rows[op.right_index + 1])
              THEN Some(op.left_rows[op.left_index + 1]
                            \o op.right_rows[op.right_index + 1],
                        [op EXCEPT !.right_index = @ + 1])
              ELSE JoinNext([op EXCEPT !.right_index = @ + 1])
         ELSE JoinNext([op EXCEPT !.right_index = 0, !.left_index = @ + 1])
    ELSE None([op EXCEPT !.right_index = 0, !.left_index = 0])

\* Join::next without right_index = 0 where the left row advances.
JoinNextNoRewind(op) ==
    IF op.left_index < Len(op.left_rows)
    THEN IF op.right_index < Len(op.right_rows)
         THEN IF JoinCondition(op.join_condition, op.left_rows[op.left_index + 1],
                               op.right_rows[op.right_index + 1])
              THEN Some(op.left_rows[op.left_index + 1]
                            \o op.right_rows[op.right_index + 1],
                        [op EXCEPT !.right_index = @ + 1])
              ELSE JoinNext([op EXCEPT !.right_index = @ + 1])
         ELSE JoinNext([op EXCEPT !.left_index = @ + 1])
    ELSE None(op)

\* Join::next loading the rows itself where open() has not been called.
JoinNextLoads(op) ==
    IF op.g.opens = 0 /\ op.left.g.nexts = 0
    THEN JoinNext(JoinOpen(op).op)
    ELSE IF op.left_index < Len(op.left_rows)
    THEN IF op.right_index < Len(op.right_rows)
         THEN IF JoinCondition(op.join_condition, op.left_rows[op.left_index + 1],
                               op.right_rows[op.right_index + 1])
              THEN Some(op.left_rows[op.left_index + 1]
                            \o op.right_rows[op.right_index + 1],
                        [op EXCEPT !.right_index = @ + 1])
              ELSE JoinNext([op EXCEPT !.right_index = @ + 1])
         ELSE JoinNext([op EXCEPT !.right_index = 0, !.left_index = @ + 1])
    ELSE None(op)

\* Join::next: the two nested while loops.
JoinNext(op) ==
    IF op.left_index < Len(op.left_rows)
    THEN IF op.right_index < Len(op.right_rows)
         THEN IF JoinCondition(op.join_condition, op.left_rows[op.left_index + 1],
                               op.right_rows[op.right_index + 1])
              THEN Some(op.left_rows[op.left_index + 1]
                            \o op.right_rows[op.right_index + 1],
                        [op EXCEPT !.right_index = @ + 1])
              ELSE JoinNext([op EXCEPT !.right_index = @ + 1])
         ELSE JoinNext([op EXCEPT !.right_index = 0, !.left_index = @ + 1])
    ELSE None(op)

\* A next() call answered by r, recorded in the operator's calls.
Answered(g, r) == [st |-> r.st, row |-> r.row, op |-> [r.op EXCEPT !.g = OnNext(g, r.st)]]

\* Operator::next on any operator: the variant's next.
NextOp(op) ==
    Answered(op.g, CASE op.kind = "Scan" -> ScanNext(op)
                     [] op.kind = "Filter" -> FilterNext(op)
                     [] op.kind = "Project" -> ProjectNext(op)
                     [] op.kind = "Limit" -> LimitNext(op)
                     [] op.kind = "Sort" -> SortNext(op)
                     [] op.kind = "Join" -> JoinNext(op))

\* self.input.open() returned r.
InputOpened(op, r) == [st |-> r.st, op |-> [op EXCEPT !.input = r.op]]

\* Filter::open and Limit::open: self.input.open().
InputOpen(op) == InputOpened(op, OpenOp(op.input))

\* An open() that moves a Scan past its first row.
NoOpenAdvances(op) ==
    [st |-> "ok",
     op |-> IF op.kind = "Scan" /\ op.rows # <<>> THEN [op EXCEPT !.rows = Tail(@)] ELSE op]

\* Scan::open, Project::open and Sort::open: an empty body.
NoOpen(op) == [st |-> "ok", op |-> op]

\* An open() call that returned r, recorded in the operator's calls.
Opened(g, r) == [st |-> r.st, op |-> [r.op EXCEPT !.g = OnOpen(g)]]

\* Operator::open on any operator.
OpenOp(op) ==
    Opened(op.g, CASE op.kind \in {"Filter", "Limit"} -> InputOpen(op)
                   [] op.kind = "Join" -> JoinOpen(op)
                   [] OTHER -> NoOpen(op))

\* Filter::close and Limit::close: self.input.close().
InputClose(op) == [op EXCEPT !.input = CloseOp(op.input)]

\* Scan::close, Project::close, Sort::close and Join::close: an empty body.
NoClose(op) == op

\* Operator::close on any operator.
CloseOp(op) ==
    [(CASE op.kind \in {"Filter", "Limit"} -> InputClose(op)
        [] OTHER -> NoClose(op)) EXCEPT !.g = OnClose(op.g)]

\* The operators an operator owns, itself included.
RECURSIVE Owned(_)
Owned(op) ==
    {op} \cup
    CASE op.kind \in {"Filter", "Project", "Limit"} -> Owned(op.input)
      [] op.kind = "Join" -> Owned(op.left) \cup Owned(op.right)
      [] OTHER -> {}

\* The operators directly upstream of an operator.
Upstream(op) ==
    CASE op.kind \in {"Filter", "Project", "Limit"} -> {op.input}
      [] op.kind = "Join" -> {op.left, op.right}
      [] OTHER -> {}

---------------------------------------------------------------------------
(* The tokenizer and the parser (sql.rs). A step that panics has st        *)
(* "panic"; otherwise st is "ok".                                          *)

Tok(type) == [type |-> type, val |-> <<>>]

TokVal(type, val) == [type |-> type, val |-> val]

\* Tokenizer::new
TokenizerNew(input) == [input |-> input, pos |-> 0]

\* Tokenizer::peek, called with pos < input.len() only.
Peek(tk) == tk.input[tk.pos + 1]

InputLen(tk) == Len(tk.input)

\* The text input[from..to].
Slice(tk, from, to) == SubSeq(tk.input, from + 1, to)

RECURSIVE SkipWhitespace(_)
SkipWhitespace(tk) ==
    IF tk.pos < InputLen(tk) /\ IsWhitespace(Peek(tk))
    THEN SkipWhitespace([tk EXCEPT !.pos = @ + 1])
    ELSE tk

\* The position after the run of alphanumeric characters starting at pos.
RECURSIVE SkipAlphanumeric(_)
SkipAlphanumeric(tk) ==
    IF tk.pos < InputLen(tk) /\ IsAlphanumeric(Peek(tk))
    THEN SkipAlphanumeric([tk EXCEPT !.pos = @ + 1])
    ELSE tk

RECURSIVE SkipDigits(_)
SkipDigits(tk) ==
    IF tk.pos < InputLen(tk) /\ Peek(tk) \in Digits
    THEN SkipDigits([tk EXCEPT !.pos = @ + 1])
    ELSE tk

Keywords ==
    << <<<<"s", "e", "l", "e", "c", "t">>, "Select">>,
       <<<<"f", "r", "o", "m">>, "From">>,
       <<<<"w", "h", "e", "r", "e">>, "Where">>,
       <<<<"o", "r", "d", "e", "r", "b", "y">>, "OrderBy">>,
       <<<<"l", "i", "m", "i", "t">>, "Limit">>,
       <<<<"a", "n", "d">>, "And">>,
       <<<<"o", "r">>, "Or">>,
       <<<<"n", "o", "t">>, "Not">> >>

\* Tokenizer::ident
TokIdent(tk) ==
    LET end == SkipAlphanumeric(tk)
        identifier == Slice(tk, tk.pos, end.pos)
        lower == ToLowercase(identifier)
    IN  [st |-> "ok", tk |-> end,
         tok |-> IF \E i \in 1..Len(Keywords) : Keywords[i][1] = lower
                 THEN Tok(Keywords[CHOOSE i \in 1..Len(Keywords) : Keywords[i][1] = lower][2])
                 ELSE TokVal("Identifier", identifier)]

\* Tokenizer::varchar: the opening quote is skipped, the alphanumeric run is the
\* literal, and one more position is skipped as the closing quote, whatever is
\* there.
TokVarchar(tk) ==
    LET start == [tk EXCEPT !.pos = @ + 1]
        end == SkipAlphanumeric(start)
    IN  [st |-> "ok", tk |-> [end EXCEPT !.pos = @ + 1],
         tok |-> TokVal("Varchar", Slice(tk, start.pos, end.pos))]

\* Tokenizer::number: parse().unwrap() panics on a literal outside i64.
TokNumber(tk) ==
    LET end == SkipDigits(tk)
        number == ParseI64(Slice(tk, tk.pos, end.pos))
    IN  [st |-> IF number.ok THEN "ok" ELSE "panic", tk |-> end,
         tok |-> TokVal("Number", number.val)]

Punctuation ==
    << <<",", "Comma">>, <<";", "Semicolon">>, <<"(", "OpenParen">>,
       <<")", "CloseParen">>, <<"=", "Equal">>, <<">", "GreaterThan">>,
       <<"<", "LessThan">> >>

\* Tokenizer::next
TokNext(tk0) ==
    LET tk == SkipWhitespace(tk0)
    IN  IF tk.pos >= InputLen(tk) THEN [st |-> "ok", tk |-> tk, tok |-> Tok("EOF")]
        ELSE LET c == Peek(tk)
             IN  IF IsAlphabetic(c) THEN TokIdent(tk)
                 ELSE IF c \in Digits THEN TokNumber(tk)
                 ELSE IF c = "'" THEN TokVarchar(tk)
                 ELSE IF \E i \in 1..Len(Punctuation) : Punctuation[i][1] = c
                 THEN [st |-> "ok", tk |-> [tk EXCEPT !.pos = @ + 1],
                       tok |-> Tok(Punctuation[CHOOSE i \in 1..Len(Punctuation) :
                                                   Punctuation[i][1] = c][2])]
                 ELSE [st |-> "panic", tk |-> tk, tok |-> Tok("EOF")]

\* Parser::next, the tokenizer's answer t: it becomes current_token.
Advanced(t) == [st |-> t.st, p |-> [tokenizer |-> t.tk, current_token |-> t.tok]]

\* Parser::next: current_token becomes the tokenizer's next token.
ParserNext(p) == Advanced(TokNext(p.tokenizer))

\* Parser::new
ParserNew(input) ==
    ParserNext([tokenizer |-> TokenizerNew(input), current_token |-> Tok("EOF")])

\* The value of the token that was current, the parser advanced past it (n).
Taken(n, val) == [st |-> n.st, p |-> n.p, val |-> val]

\* Parser::ident
ParserIdent(p) ==
    IF p.current_token.type = "Identifier" THEN Taken(ParserNext(p), p.current_token.val)
    ELSE [st |-> "panic", p |-> p, val |-> <<>>]

\* Parser::number
ParserNumber(p) ==
    IF p.current_token.type = "Number" THEN Taken(ParserNext(p), p.current_token.val)
    ELSE [st |-> "panic", p |-> p, val |-> Zero64]

BinaryTokens == {"Equal", "GreaterThan", "LessThan", "And", "Or"}

\* The string Parser::expr gives an operator token.
OpString(type) ==
    CASE type = "Equal" -> "="
      [] type = "GreaterThan" -> ">"
      [] type = "LessThan" -> "<"
      [] type = "And" -> "AND"
      [] type = "Or" -> "OR"

PanicExpr(p) == [st |-> "panic", p |-> p, expr |-> Varchar(<<>>)]

RECURSIVE ParserExpr(_), ExprLoop(_, _)

\* Parser::expr, the loop's match on op with the right-hand side r parsed: left
\* becomes the And, the Or or the Comparison, and the loop goes on.
ExprJoined(op, left, r) ==
    IF r.st = "panic" THEN r
    ELSE ExprLoop(r.p, IF op = "AND" THEN And(left, r.expr)
                       ELSE IF op = "OR" THEN Or(left, r.expr)
                       ELSE Comparison(left, op, r.expr))

\* Parser::expr, the loop past the operator (n): the whole right-hand side is
\* parsed by a recursive call of expr.
ExprRight(op, left, n) ==
    IF n.st = "panic" THEN PanicExpr(n.p) ELSE ExprJoined(op, left, ParserExpr(n.p))

\* Parser::expr, its while loop: an operator, then the right-hand side.
ExprLoop(p, left) ==
    IF p.current_token.type \in BinaryTokens
    THEN ExprRight(OpString(p.current_token.type), left, ParserNext(p))
    ELSE [st |-> "ok", p |-> p, expr |-> left]

\* Parser::expr, an identifier, a varchar or a number t with the parser advanced
\* past it (n).
ExprPrimary(t, n) ==
    IF n.st = "panic" THEN PanicExpr(n.p)
    ELSE ExprLoop(n.p, CASE t.type = "Identifier" -> Column(t.val)
                         [] t.type = "Varchar" -> Varchar(t.val)
                         [] t.type = "Number" -> Value(t.val))

\* Parser::expr, past the closing parenthesis (c) of the expression expr.
ExprClosed(expr, c) == IF c.st = "panic" THEN PanicExpr(c.p) ELSE ExprLoop(c.p, expr)

\* Parser::expr, the expression e inside parentheses: a closing parenthesis must
\* follow.
ExprInner(e) ==
    IF e.st = "panic" THEN e
    ELSE IF e.p.current_token.type = "CloseParen" THEN ExprClosed(e.expr, ParserNext(e.p))
    ELSE PanicExpr(e.p)

\* Parser::expr, past an opening parenthesis (n).
ExprParen(n) == IF n.st = "panic" THEN PanicExpr(n.p) ELSE ExprInner(ParserExpr(n.p))

\* Parser::expr: a primary expression, then the loop.
ParserExpr(p) ==
    CASE p.current_token.type \in {"Identifier", "Varchar", "Number"} ->
            ExprPrimary(p.current_token, ParserNext(p))
      [] p.current_token.type = "OpenParen" -> ExprParen(ParserNext(p))
      [] OTHER -> PanicExpr(p)

\* Option<T>
NoneOf(v) == [some |-> FALSE, v |-> v]

SomeOf(v) == [some |-> TRUE, v |-> v]

Select(columns, table, filter, order_by, limit) ==
    [columns |-> columns, table |-> table, filter |-> filter, order_by |-> order_by,
     limit |-> limit]

NoQuery == Select(<<>>, <<>>, NoneOf(Varchar(<<>>)), NoneOf(<<>>), NoneOf(Zero64))

PanicParse(p) == [st |-> "panic", p |-> p, query |-> NoQuery]

RECURSIVE ParseColumns(_, _)

\* Parser::parse, the column list past a comma (c).
ColumnComma(c, pushed) ==
    IF c.st = "panic" THEN [st |-> "panic", p |-> c.p, columns |-> pushed]
    ELSE ParseColumns(c.p, pushed)

\* Parser::parse, the column list past an identifier (n), pushed being the
\* columns with it: a comma goes on with the list.
ColumnPushed(n, pushed) ==
    IF n.st = "panic" THEN [st |-> "panic", p |-> n.p, columns |-> pushed]
    ELSE IF n.p.current_token.type = "Comma" THEN ColumnComma(ParserNext(n.p), pushed)
    ELSE [st |-> "ok", p |-> n.p, columns |-> pushed]

\* A column list that puts each column before the ones read so far.
ParseColumnsReversed(p, columns) ==
    IF p.current_token.type = "Identifier"
    THEN ColumnPushed(ParserNext(p), <<p.current_token.val>> \o columns)
    ELSE [st |-> "ok", p |-> p, columns |-> columns]

\* Parser::parse, the column list: identifiers separated by commas.
ParseColumns(p, columns) ==
    IF p.current_token.type = "Identifier"
    THEN ColumnPushed(ParserNext(p), Append(columns, p.current_token.val))
    ELSE [st |-> "ok", p |-> p, columns |-> columns]

\* filter = Some(e), e being what self.expr() returned.
WhereParsed(e) == [st |-> e.st, p |-> e.p, v |-> SomeOf(e.expr)]

\* order_by = Some(i) and limit = Some(i), i being what self.ident() and
\* self.number() returned.
ClauseParsed(i) == [st |-> i.st, p |-> i.p, v |-> SomeOf(i.val)]

\* Parser::parse, past WHERE (n): filter = Some(self.expr()).
WhereExpr(n) ==
    IF n.st = "panic" THEN [st |-> "panic", p |-> n.p, v |-> NoneOf(Varchar(<<>>))]
    ELSE WhereParsed(ParserExpr(n.p))

\* Parser::parse, the optional WHERE clause.
ParseWhere(p) ==
    IF p.current_token.type = "Where" THEN WhereExpr(ParserNext(p))
    ELSE [st |-> "ok", p |-> p, v |-> NoneOf(Varchar(<<>>))]

\* Parser::parse, past ORDERBY (n): order_by = Some(self.ident()).
OrderByIdent(n) ==
    IF n.st = "panic" THEN [st |-> "panic", p |-> n.p, v |-> NoneOf(<<>>)]
    ELSE ClauseParsed(ParserIdent(n.p))

\* Parser::parse, the optional ORDERBY clause.
ParseOrderBy(p) ==
    IF p.current_token.type = "OrderBy" THEN OrderByIdent(ParserNext(p))
    ELSE [st |-> "ok", p |-> p, v |-> NoneOf(<<>>)]

\* Parser::parse, past LIMIT (n): limit = Some(self.number()).
LimitNumber(n) ==
    IF n.st = "panic" THEN [st |-> "panic", p |-> n.p, v |-> NoneOf(Zero64)]
    ELSE ClauseParsed(ParserNumber(n.p))

\* Parser::parse, the optional LIMIT clause.
ParseLimit(p) ==
    IF p.current_token.type = "Limit" THEN LimitNumber(ParserNext(p))
    ELSE [st |-> "ok", p |-> p, v |-> NoneOf(Zero64)]

\* Parser::parse, the end of the statement: a semicolon (and the token after it
\* is read) or the end of the input.
ParseEnd(p) ==
    IF p.current_token.type = "Semicolon" THEN ParserNext(p)
    ELSE [st |-> IF p.current_token.type = "EOF" THEN "ok" ELSE "panic", p |-> p]

\* Parser::parse, the statement's end read (e): Ok(Query::Select { .. }).
ParseFinish(q, e) ==
    IF e.st = "panic" THEN PanicParse(e.p) ELSE [st |-> "ok", p |-> e.p, query |-> q]

\* Parser::parse, the LIMIT clause read (l).
ParseAfterLimit(columns, table, filter, order_by, l) ==
    IF l.st = "panic" THEN PanicParse(l.p)
    ELSE ParseFinish(Select(columns, table, filter, order_by, l.v), ParseEnd(l.p))

\* Parser::parse, the ORDERBY clause read (o).
ParseAfterOrderBy(columns, table, filter, o) ==
    IF o.st = "panic" THEN PanicParse(o.p)
    ELSE ParseAfterLimit(columns, table, filter, o.v, ParseLimit(o.p))

\* Parser::parse, the WHERE clause read (w).
ParseAfterWhere(columns, table, w) ==
    IF w.st = "panic" THEN PanicParse(w.p)
    ELSE ParseAfterOrderBy(columns, table, w.v, ParseOrderBy(w.p))

\* Parser::parse, the table name read (t).
ParseAfterTable(columns, t) ==
    IF t.st = "panic" THEN PanicParse(t.p)
    ELSE ParseAfterWhere(columns, t.val, ParseWhere(t.p))

\* Parser::parse, past FROM (f): the table name.
ParseTable(columns, f) ==
    IF f.st = "panic" THEN PanicParse(f.p) ELSE ParseAfterTable(columns, ParserIdent(f.p))

\* Parser::parse, the column list read (c): FROM must follow.
ParseFrom(c) ==
    IF c.st = "panic" \/ c.p.current_token.type # "From" THEN PanicParse(c.p)
    ELSE ParseTable(c.columns, ParserNext(c.p))

\* Parser::parse, past SELECT (s): the column list.
ParseSelect(s) ==
    IF s.st = "panic" THEN PanicParse(s.p) ELSE ParseFrom(ParseColumns(s.p, <<>>))

\* Parser::parse
ParserParse(p) ==
    IF p.current_token.type # "Select" THEN PanicParse(p) ELSE ParseSelect(ParserNext(p))

\* Parser::new returned p: parse().
ParseNew(p) == IF p.st = "panic" THEN PanicParse(p.p) ELSE ParserParse(p.p)

\* The query! macro's first two lines: Parser::new(Tokenizer::new(text)).parse()
ParseText(input) == ParseNew(ParserNew(input))

---------------------------------------------------------------------------
(* The query executor (main.rs).                                           *)

\* The largest count the model can hold; no pipeline of the model returns as
\* many rows.
UsizeMax == 2147483647

\* `limit as usize`, for a limit of the model's range; a negative i64 becomes a
\* usize above every count.
AsUsize(w) ==
    IF w[1] = 0 /\ w[2] = 0 /\ w[3] < SignBit THEN w[3] * Limb + w[4] ELSE UsizeMax

\* The column indices of plan's map over the SELECT list.
ColumnIndices(columns) == [i \in 1..Len(columns) |-> ColumnIndex(columns[i])]

\* QueryExecutor::plan, step 5: the Project over the pipeline so far. A column
\* outside the schema panics.
PlanProject(q, limited) ==
    IF \E i \in 1..Len(q.columns) : ~InSchema(q.columns[i])
    THEN [st |-> "panic", op |-> limited]
    ELSE [st |-> "ok", op |-> ProjectNew(limited, ColumnIndices(q.columns))]

\* QueryExecutor::plan, step 4: the Limit over the pipeline so far (sorted),
\* where the query has a LIMIT.
PlanLimit(q, sorted) ==
    IF sorted.st = "panic" THEN sorted
    ELSE PlanProject(q, IF q.limit.some THEN LimitNew(sorted.op, AsUsize(q.limit.v))
                        ELSE sorted.op)

\* QueryExecutor::plan, step 3: the Sort over the pipeline so far (filtered),
\* where the query has an ORDERBY. A column outside the schema panics, and so
\* does a panic of the filter while Sort::new drains it.
PlanSort(q, filtered) ==
    IF ~q.order_by.some THEN [st |-> "ok", op |-> filtered]
    ELSE IF ~InSchema(q.order_by.v) THEN [st |-> "panic", op |-> filtered]
    ELSE SortNew(filtered, ColumnIndex(q.order_by.v))

\* QueryExecutor::plan, step 2: the Filter over the scan, where the query has a
\* WHERE.
PlanFilter(q, scan) == IF q.filter.some THEN FilterNew(scan, q.filter.v) ELSE scan

\* A plan that puts the Limit under the Sort.
PlanLimitFirst(q, rows) ==
    LET limited == IF q.limit.some
                   THEN LimitNew(PlanFilter(q, ScanNew(rows)), AsUsize(q.limit.v))
                   ELSE PlanFilter(q, ScanNew(rows))
        sorted == PlanSort(q, limited)
    IN  IF sorted.st = "panic" THEN sorted ELSE PlanProject(q, sorted.op)

\* A plan that scans the rows for the table employees only.
PlanByTable(q, rows) ==
    PlanLimit(q, PlanSort(q, PlanFilter(q, ScanNew(
        IF q.table = <<"e", "m", "p", "l", "o", "y", "e", "e", "s">> THEN rows ELSE <<>>))))

\* QueryExecutor::plan: Scan, then Filter, Sort, Limit for the clauses present,
\* then Project. st is "panic" where plan does not return.
Plan(q, rows) == PlanLimit(q, PlanSort(q, PlanFilter(q, ScanNew(rows))))

NoPipeline == [kind |-> "None", g |-> NewCalls]

NoBuild == [shape |-> "None"]

NoCall == [call |-> "none", st |-> "ok", row |-> <<>>]

NoCalls == [open |-> 0, next |-> 0, close |-> 0, eos |-> 0]

NoCpu == [ip |-> "idle"]

NoMem == <<>>

\* parse() returned r: the query, or the panic of the unwrap.
ParseReturns(r) ==
    /\ query' = r.query
    /\ pc' = IF r.st = "ok" THEN "plan" ELSE "panic"

\* query!: tokenize and parse the text.
Parse ==
    /\ pc = "parse"
    /\ ParseReturns(ParseText(text))
    /\ UNCHANGED <<text, data, build, pipeline, results, sinceOpen, last, calls, cpu, mem>>

\* plan() returned r.
PlanReturns(r) ==
    /\ pipeline' = r.op
    /\ pc' = IF r.st = "ok" THEN "open" ELSE "panic"

\* data.clone() leaving the caller without its rows, as a move would.
Moved(rows) == [given |-> rows, kept |-> <<>>]

\* main's data.clone(): plan is given a copy and the caller keeps its rows.
Clone(rows) == [given |-> rows, kept |-> rows]

\* query!: executor.plan(q, data.clone())
PlanQuery ==
    /\ pc = "plan"
    /\ PlanReturns(Plan(query, Clone(data).given))
    /\ data' = Clone(data).kept
    /\ UNCHANGED <<text, query, build, results, sinceOpen, last, calls, cpu, mem>>

\* pipeline.open() returned r; next is where the caller goes on.
OpenReturns(r, next) ==
    /\ pipeline' = r.op
    /\ pc' = IF r.st = "ok" THEN next ELSE "panic"
    /\ last' = [call |-> "open", st |-> r.st, row |-> <<>>]
    /\ sinceOpen' = <<>>
    /\ calls' = [calls EXCEPT !.open = @ + 1]

\* QueryExecutor::execute: pipeline.open()
ExecuteOpen ==
    /\ pc = "open"
    /\ OpenReturns(OpenOp(pipeline), "next")
    /\ UNCHANGED <<text, query, data, build, results, cpu, mem>>

\* execute returning at end-of-stream without pipeline.close().
NextReturnsSkipsClose(r, some, none) ==
    /\ pipeline' = r.op
    /\ pc' = CASE r.st = "some" -> some
               [] r.st = "none" -> (IF none = "close" THEN "done" ELSE none)
               [] OTHER -> "panic"
    /\ results' = IF r.st = "some" THEN Append(results, r.row) ELSE results
    /\ sinceOpen' = IF r.st = "some" THEN Append(sinceOpen, r.row) ELSE sinceOpen
    /\ last' = [call |-> "next", st |-> r.st, row |-> r.row]
    /\ calls' = [calls EXCEPT !.next = @ + 1,
                              !.eos = @ + (IF r.st = "none" THEN 1 ELSE 0)]

\* pipeline.next() returned r: a row is pushed to the results; some and none
\* are where the caller goes on after a row and after end-of-stream.
NextReturns(r, some, none) ==
    /\ pipeline' = r.op
    /\ pc' = CASE r.st = "some" -> some [] r.st = "none" -> none [] OTHER -> "panic"
    /\ results' = IF r.st = "some" THEN Append(results, r.row) ELSE results
    /\ sinceOpen' = IF r.st = "some" THEN Append(sinceOpen, r.row) ELSE sinceOpen
    /\ last' = [call |-> "next", st |-> r.st, row |-> r.row]
    /\ calls' = [calls EXCEPT !.next = @ + 1,
                              !.eos = @ + (IF r.st = "none" THEN 1 ELSE 0)]

\* QueryExecutor::execute: one turn of while let Some(row) = pipeline.next()
ExecuteNext ==
    /\ pc = "next"
    /\ NextReturns(NextOp(pipeline), "next", "close")
    /\ UNCHANGED <<text, query, data, build, cpu, mem>>

\* pipeline.close() returned.
CloseReturns(op, next) ==
    /\ pipeline' = op
    /\ pc' = next
    /\ last' = [call |-> "close", st |-> "ok", row |-> <<>>]
    /\ calls' = [calls EXCEPT !.close = @ + 1]

\* QueryExecutor::execute: pipeline.close(), and the results are returned.
ExecuteClose ==
    /\ pc = "close"
    /\ CloseReturns(CloseOp(pipeline), "done")
    /\ UNCHANGED <<text, query, data, build, results, sinceOpen, cpu, mem>>

---------------------------------------------------------------------------
(* The native filter routine (codegen.rs, compile_filter). One action per  *)
(* instruction; memory maps an address to the 64-bit word stored there.    *)

\* a + b modulo 2^64
Add64(a, b) == Sub64(a, Neg64(b)).val

\* The word at an address, and memory with a word stored.
Load(m, addr) == m[addr]

Store(m, addr, w) == [a \in DOMAIN m \cup {addr} |-> IF a = addr THEN w ELSE m[a]]

\* Vec<i64>::as_ptr: the items lie one after the other, eight bytes each.
ItemAddr(base, i) == Add64(base, Nat64(8 * i))

\* cmp a, b: the flags of a - b.
CmpFlags(a, b) ==
    [zf |-> Sub64(a, b).val = Zero64,
     sf |-> IsNeg64(Sub64(a, b).val),
     of |-> IsNeg64(a) # IsNeg64(b) /\ IsNeg64(Sub64(a, b).val) # IsNeg64(a),
     cf |-> Sub64(a, b).borrow]

\* jl: taken when SF # OF.
Jl(flags) == flags.sf # flags.of

\* jle: taken when ZF = 1 or SF # OF.
Jle(flags) == flags.zf \/ flags.sf # flags.of

\* The instruction at ip has run; the next one is at to.
Step(to) == /\ pc = "jit"
            /\ pc' = IF to \in {"returned", "wild"} THEN "ret" ELSE "jit"
            /\ UNCHANGED <<text, query, data, build, pipeline, results, sinceOpen, last,
                           calls>>

\* push rbp
PushRbp ==
    /\ cpu.ip = "push rbp"
    /\ cpu' = [cpu EXCEPT !.ip = "mov rbp, rsp", !.rsp = Sub64(@, Nat64(8)).val]
    /\ mem' = Store(mem, Sub64(cpu.rsp, Nat64(8)).val, cpu.rbp)
    /\ Step("mov rbp, rsp")

\* mov rbp, rsp
MovRbpRsp ==
    /\ cpu.ip = "mov rbp, rsp"
    /\ cpu' = [cpu EXCEPT !.ip = "mov rax, [rdi + 24]", !.rbp = cpu.rsp]
    /\ mem' = mem
    /\ Step("mov rax, [rdi + 24]")

\* mov rax, QWORD [rdi + 3 * 8]
MovRaxSalary ==
    /\ cpu.ip = "mov rax, [rdi + 24]"
    /\ cpu' = [cpu EXCEPT !.ip = "cmp rax, 9000", !.rax = Load(mem, ItemAddr(cpu.rdi, 3))]
    /\ mem' = mem
    /\ Step("cmp rax, 9000")

\* cmp rax, 9000
CmpRax9000 ==
    /\ cpu.ip = "cmp rax, 9000"
    /\ cpu' = [cpu EXCEPT !.ip = "jle fail", !.flags = CmpFlags(cpu.rax, Nat64(9000))]
    /\ mem' = mem
    /\ Step("jle fail")

\* jle >fail
JleFail ==
    /\ cpu.ip = "jle fail"
    /\ cpu' = [cpu EXCEPT !.ip = IF Jle(cpu.flags) THEN "mov rax, 0" ELSE "mov rax, 1"]
    /\ mem' = mem
    /\ Step(cpu'.ip)

\* mov rax, 1
MovRax1 ==
    /\ cpu.ip = "mov rax, 1"
    /\ cpu' = [cpu EXCEPT !.ip = "jmp end", !.rax = Nat64(1)]
    /\ mem' = mem
    /\ Step("jmp end")

\* jmp >end
JmpEnd ==
    /\ cpu.ip = "jmp end"
    /\ cpu' = [cpu EXCEPT !.ip = "mov rsp, rbp"]
    /\ mem' = mem
    /\ Step("mov rsp, rbp")

\* fail: mov rax, 0
MovRax0 ==
    /\ cpu.ip = "mov rax, 0"
    /\ cpu' = [cpu EXCEPT !.ip = "mov rsp, rbp", !.rax = Nat64(0)]
    /\ mem' = mem
    /\ Step("mov rsp, rbp")

\* end: mov rsp, rbp
MovRspRbp ==
    /\ cpu.ip = "mov rsp, rbp"
    /\ cpu' = [cpu EXCEPT !.ip = "pop rbp", !.rsp = cpu.rbp]
    /\ mem' = mem
    /\ Step("pop rbp")

\* pop rbp
PopRbp ==
    /\ cpu.ip = "pop rbp"
    /\ cpu' = [cpu EXCEPT !.ip = "ret", !.rbp = Load(mem, cpu.rsp),
                          !.rsp = Add64(@, Nat64(8))]
    /\ mem' = mem
    /\ Step("ret")

\* The address the caller's call pushed: where filter(row.as_ptr()) goes on.
ReturnAddress == <<0, 0, 64, 4660>>

\* ret: the word on top of the stack is popped into the instruction pointer.
Ret ==
    /\ cpu.ip = "ret"
    /\ cpu' = [cpu EXCEPT !.ip = IF Load(mem, cpu.rsp) = ReturnAddress THEN "returned"
                                 ELSE "wild",
                          !.rsp = Add64(@, Nat64(8))]
    /\ mem' = mem
    /\ Step(cpu'.ip)

\* The instructions compile_filter assembles, in their order.
FilterCode ==
    <<"push rbp", "mov rbp, rsp", "mov rax, [rdi + 24]", "cmp rax, 9000", "jle fail",
      "mov rax, 1", "jmp end", "mov rax, 0", "mov rsp, rbp", "pop rbp", "ret">>

\* compile_filter handing out the entry offset of a buffer it has released.
CompileFilterReleased ==
    [shape |-> "buffer", entry_point |-> 0, state |-> "Disposed", code |-> FilterCode]

\* compile_filter: (entry_point, assembler.finalize().unwrap()), the offset taken
\* before the first instruction and the buffer, which the caller now owns.
CompileFilter ==
    [shape |-> "buffer", entry_point |-> 0, state |-> "Compiled", code |-> FilterCode]

\* let (entry_point, filter_fn) = compiler.compile_filter()
Compile ==
    /\ pc = "compile"
    /\ build' = CompileFilter
    /\ pc' = "call"
    /\ UNCHANGED <<text, query, data, pipeline, results, sinceOpen, last, calls, cpu, mem>>

\* filter(row.as_ptr()) through the pointer transmuted from
\* filter_fn.ptr(entry_point): the pointer to the row is in rdi, the return
\* address on top of the stack, and rax, rbp and the flags hold what the caller
\* left. base is where the row lies, top the top of the caller's stack.
CallFilter(base, top) ==
    /\ pc = "call"
    /\ \E rbp \in {Add64(top, Nat64(48)), Zero64}, rax \in {<<SignBit, 0, 0, 0>>, Nat64(1)} :
          cpu' = [ip |-> build.code[build.entry_point + 1], rax |-> rax, rbp |-> rbp,
                  rsp |-> top, rdi |-> base, entry |-> [rbp |-> rbp, rsp |-> top],
                  flags |-> [zf |-> FALSE, sf |-> FALSE, of |-> FALSE, cf |-> FALSE]]
    /\ pc' = "jit"
    /\ UNCHANGED <<text, query, data, build, pipeline, results, sinceOpen, last, calls,
                   mem>>

\* The end of the test's scope: filter_fn, the buffer, is dropped.
DropBuffer ==
    /\ pc = "ret"
    /\ build.shape = "buffer"
    /\ build' = [build EXCEPT !.state = "Disposed"]
    /\ pc' = "dropped"
    /\ UNCHANGED <<text, query, data, pipeline, results, sinceOpen, last, calls, cpu, mem>>

\* The items of the Vec<i64> at a pointer.
ItemsAt(m, base) == [i \in 1..4 |-> Load(m, ItemAddr(base, i - 1))]

---------------------------------------------------------------------------
(* The native scan and project routines (codegen.rs, scan_tests:           *)
(* compile_scan and compile_project). One action per instruction; the two  *)
(* routines share the instructions that are the same in both. iters counts *)
(* the turns of the loop. The flags add and inc leave are not kept: cmp    *)
(* sets them again before jge reads them.                                  *)

\* n as i64 as i32, as the immediate of cmp: the low 32 bits, sign-extended.
Imm32(n) ==
    IF n[3] >= SignBit THEN <<Limb - 1, Limb - 1, n[3], n[4]>> ELSE <<0, 0, n[3], n[4]>>

\* rcx * 8 of the addressing mode, modulo 2^64.
Scaled8(a) ==
    <<((a[1] * 8) % Limb) + ((a[2] * 8) \div Limb),
      ((a[2] * 8) % Limb) + ((a[3] * 8) \div Limb),
      ((a[3] * 8) % Limb) + ((a[4] * 8) \div Limb), (a[4] * 8) % Limb>>

\* row_count / 4 in usize.
StrideSize(n) ==
    <<n[1] \div 4, ((n[1] % 4) * (Limb \div 4)) + (n[2] \div 4),
      ((n[2] % 4) * (Limb \div 4)) + (n[3] \div 4),
      ((n[3] % 4) * (Limb \div 4)) + (n[4] \div 4)>>

\* What compile_scan builds into the code: the loop's bound, its load and its
\* increment.
CompileScan(row_count) ==
    [bound |-> Imm32(row_count), load |-> "mov rax, [rsi + rcx * 8]",
     disp |-> Zero64, inc |-> "add rcx, 1"]

\* What compile_project builds into the code.
CompileProject(row_count, column) ==
    [bound |-> Imm32(StrideSize(row_count)), load |-> "mov rax, [rsi + column * 8]",
     disp |-> Imm32(Nat64(column * 8)), inc |-> "inc rcx"]

\* jge: taken when SF = OF.
Jge(flags) == flags.sf = flags.of

\* mov rsi, QWORD self.row_data
MovRsiRowData ==
    /\ cpu.ip = "mov rsi, row_data"
    /\ cpu' = [cpu EXCEPT !.ip = "mov rdi, data", !.rsi = build.row_data]
    /\ mem' = mem
    /\ Step("mov rdi, data")

\* mov rdi, QWORD data_ptr
MovRdiData ==
    /\ cpu.ip = "mov rdi, data"
    /\ cpu' = [cpu EXCEPT !.ip = "mov rcx, 0", !.rdi = build.data_ptr]
    /\ mem' = mem
    /\ Step("mov rcx, 0")

\* mov rcx, 0
MovRcx0 ==
    /\ cpu.ip = "mov rcx, 0"
    /\ cpu' = [cpu EXCEPT !.ip = "cmp rcx, bound", !.rcx = Zero64]
    /\ mem' = mem
    /\ Step("cmp rcx, bound")

\* loop_start: cmp rcx, row_count (scan) or stride_size (project), an imm32
CmpRcxBound ==
    /\ cpu.ip = "cmp rcx, bound"
    /\ cpu' = [cpu EXCEPT !.ip = "jge exit", !.flags = CmpFlags(cpu.rcx, build.code.bound)]
    /\ mem' = mem
    /\ Step("jge exit")

\* jge >exit
JgeExit ==
    /\ cpu.ip = "jge exit"
    /\ cpu' = [cpu EXCEPT !.ip = IF Jge(cpu.flags) THEN "ret" ELSE build.code.load]
    /\ mem' = mem
    /\ Step(cpu'.ip)

\* mov rax, [rsi + rcx * 8]
MovRaxItem ==
    /\ cpu.ip = "mov rax, [rsi + rcx * 8]"
    /\ cpu' = [cpu EXCEPT !.ip = "mov [rdi + rcx * 8], rax",
                          !.rax = Load(mem, Add64(cpu.rsi, Scaled8(cpu.rcx)))]
    /\ mem' = mem
    /\ Step("mov [rdi + rcx * 8], rax")

\* mov rax, [rsi + column * 8]
MovRaxColumn ==
    /\ cpu.ip = "mov rax, [rsi + column * 8]"
    /\ cpu' = [cpu EXCEPT !.ip = "mov [rdi + rcx * 8], rax",
                          !.rax = Load(mem, Add64(cpu.rsi, build.code.disp))]
    /\ mem' = mem
    /\ Step("mov [rdi + rcx * 8], rax")

\* mov [rdi + rcx * 8], rax
MovItemRax ==
    /\ cpu.ip = "mov [rdi + rcx * 8], rax"
    /\ cpu' = [cpu EXCEPT !.ip = build.code.inc]
    /\ mem' = Store(mem, Add64(cpu.rdi, Scaled8(cpu.rcx)), cpu.rax)
    /\ Step(build.code.inc)

\* add rcx, 1
AddRcx1 ==
    /\ cpu.ip = "add rcx, 1"
    /\ cpu' = [cpu EXCEPT !.ip = "jmp loop_start", !.rcx = Add64(@, Nat64(1)),
                          !.iters = @ + 1]
    /\ mem' = mem
    /\ Step("jmp loop_start")

\* inc rcx
IncRcx ==
    /\ cpu.ip = "inc rcx"
    /\ cpu' = [cpu EXCEPT !.ip = "jmp loop_start", !.rcx = Add64(@, Nat64(1)),
                          !.iters = @ + 1]
    /\ mem' = mem
    /\ Step("jmp loop_start")

\* jmp ->loop_start
JmpLoopStart ==
    /\ cpu.ip = "jmp loop_start"
    /\ cpu' = [cpu EXCEPT !.ip = "cmp rcx, bound"]
    /\ mem' = mem
    /\ Step("cmp rcx, bound")

---------------------------------------------------------------------------
(* The callers. The caller of the operators builds a pipeline and calls    *)
(* open(), next() and close() on its root in any order; the caller of the  *)
(* executor runs query!: parse, plan, execute.                             *)

MaxRows == 2

MaxLimit == 2

MaxOpens == 2

MaxEos == 2

SeqsUpTo(pool, n) == UNION {[1..k -> pool] : k \in 0..n}

\* Rows of the operator tests' shape: an identifier and a name.
RowA == <<<<"1">>, <<"a">>>>

RowB == <<<<"2">>, <<"b">>>>

RowC == <<<<"1">>, <<"c">>>>

SmallData == SeqsUpTo({RowA, RowB}, MaxRows)

TiedData == SeqsUpTo({RowA, RowB, RowC}, MaxRows)

\* The predicate of the filter tests, row.get(0).unwrap() == "1", as plan's
\* closure over an expression, and one on the name.
PredId1 == Comparison(Column(IdCol), "=", Varchar(<<"1">>))

PredNameB == Comparison(Column(NameCol), "=", Varchar(<<"b">>))

Build(shape, left, right, limit, col, cond, pred, columns) ==
    [shape |-> shape, left |-> left, right |-> right, limit |-> limit, col |-> col,
     cond |-> cond, pred |-> pred, columns |-> columns]

Builds ==
    {Build("Scan", l, <<>>, 0, 0, "eq0", PredId1, <<>>) : l \in SmallData}
    \cup {Build("Filter", l, <<>>, 0, 0, "eq0", p, <<>>) :
            l \in SmallData, p \in {PredId1, PredNameB}}
    \cup {Build("Project", l, <<>>, 0, 0, "eq0", PredId1, c) :
            l \in SmallData, c \in {<<1>>, <<1, 0>>, <<0, 2>>}}
    \cup {Build("Limit", l, <<>>, n, 0, "eq0", PredId1, <<>>) :
            l \in SmallData, n \in 0..MaxLimit}
    \cup {Build("Sort", l, <<>>, 0, c, "eq0", PredId1, <<>>) :
            l \in TiedData, c \in {0, 1}}
    \cup {Build("LimitSort", l, <<>>, n, 0, "eq0", PredId1, <<>>) :
            l \in TiedData, n \in 0..MaxLimit}
    \cup {Build("LimitFilter", l, <<>>, n, 0, "eq0", PredId1, <<>>) :
            l \in SmallData, n \in 0..MaxLimit}
    \cup {Build("Join", l, r, 0, 0, c, PredId1, <<>>) :
            l \in SmallData, r \in SmallData, c \in {"eq0", "ne0", "all"}}
    \cup {Build(s, <<RowA, RowB>>, r, 1, 0, "eq0", PredId1, <<1>>) :
            s \in {"FilterJoin", "ProjectJoin", "LimitJoin", "SortJoin"}, r \in SmallData}

\* The pipeline the caller builds, by the constructors.
Construct(b) ==
    LET scan == ScanNew(b.left)
        join == JoinNew(ScanNew(b.left), ScanNew(b.right), b.cond)
    IN  CASE b.shape = "Scan" -> scan
          [] b.shape = "Filter" -> FilterNew(scan, b.pred)
          [] b.shape = "Project" -> ProjectNew(scan, b.columns)
          [] b.shape = "Limit" -> LimitNew(scan, b.limit)
          [] b.shape = "Sort" -> SortNew(scan, b.col).op
          [] b.shape = "LimitSort" -> LimitNew(SortNew(scan, b.col).op, b.limit)
          [] b.shape = "LimitFilter" -> LimitNew(FilterNew(scan, b.pred), b.limit)
          [] b.shape = "Join" -> join
          [] b.shape = "FilterJoin" -> FilterNew(join, b.pred)
          [] b.shape = "ProjectJoin" -> ProjectNew(join, b.columns)
          [] b.shape = "LimitJoin" -> LimitNew(join, b.limit)
          [] b.shape = "SortJoin" -> SortNew(join, b.col).op

Init ==
    /\ build \in Builds
    /\ pipeline = Construct(build)
    /\ pc = "ops"
    /\ data = build.left
    /\ text = <<>>
    /\ query = NoQuery
    /\ results = <<>>
    /\ sinceOpen = <<>>
    /\ last = NoCall
    /\ calls = NoCalls
    /\ cpu = NoCpu
    /\ mem = NoMem

\* The caller calls open() on the root.
CallOpen ==
    /\ pc = "ops"
    /\ calls.open < MaxOpens
    /\ OpenReturns(OpenOp(pipeline), "ops")
    /\ UNCHANGED <<text, query, data, build, results, cpu, mem>>

\* The caller calls next() on the root; it stops asking after MaxEos
\* end-of-stream answers.
CallNext ==
    /\ pc = "ops"
    /\ calls.eos < MaxEos
    /\ NextReturns(NextOp(pipeline), "ops", "ops")
    /\ UNCHANGED <<text, query, data, build, cpu, mem>>

\* The caller calls close() on the root and uses the pipeline no more.
CallClose ==
    /\ pc = "ops"
    /\ CloseReturns(CloseOp(pipeline), "closed")
    /\ UNCHANGED <<text, query, data, build, results, sinceOpen, cpu, mem>>

\* The caller clears its own rows; the operators were given a copy.
CallerClears ==
    /\ pc = "ops"
    /\ data # <<>>
    /\ data' = <<>>
    /\ UNCHANGED <<text, query, build, pipeline, pc, results, sinceOpen, last, calls,
                   cpu, mem>>

Next == CallOpen \/ CallNext \/ CallClose \/ CallerClears

Spec == Init /\ [][Next]_vars

\* The data set of main.
Employees ==
    <<
      <<<<"1">>, <<"A", "l", "i", "c", "e">>, <<"M", "a", "n", "a", "g", "e", "r">>, <<"1", "2", "0", "0", "0">>>>,
      <<<<"2">>, <<"B", "o", "b">>, <<"D", "e", "v", "e", "l", "o", "p", "e", "r">>, <<"1", "0", "0", "0", "0">>>>,
      <<<<"3">>, <<"C", "h", "a", "r", "l", "i", "e">>, <<"D", "e", "v", "e", "l", "o", "p", "e", "r">>, <<"9", "0", "0", "0">>>>,
      <<<<"4">>, <<"D", "a", "v", "i", "d">>, <<"A", "n", "a", "l", "y", "s", "t">>, <<"1", "1", "0", "0", "0">>>>,
      <<<<"5">>, <<"E", "v", "e">>, <<"M", "a", "n", "a", "g", "e", "r">>, <<"1", "3", "0", "0", "0">>>>,
      <<<<"6">>, <<"F", "r", "a", "n", "k">>, <<"D", "e", "v", "e", "l", "o", "p", "e", "r">>, <<"9", "5", "0", "0">>>>,
      <<<<"7">>, <<"G", "r", "a", "c", "e">>, <<"A", "n", "a", "l", "y", "s", "t">>, <<"1", "0", "5", "0", "0">>>>,
      <<<<"8">>, <<"H", "a", "n", "n", "a", "h">>, <<"D", "e", "v", "e", "l", "o", "p", "e", "r">>, <<"9", "8", "0", "0">>>>,
      <<<<"9">>, <<"I", "v", "y">>, <<"M", "a", "n", "a", "g", "e", "r">>, <<"1", "2", "5", "0", "0">>>>,
      <<<<"1", "0">>, <<"J", "a", "c", "k">>, <<"A", "n", "a", "l", "y", "s", "t">>, <<"1", "0", "2", "0", "0">>>> >>

\* Rows of the employees' shape for the generated queries.
EmployeeData == SeqsUpTo({Employees[1], Employees[2], Employees[3]}, MaxRows)

AgeCol == <<"a", "g", "e">>

SalaryAbove9000 == Comparison(Column(SalaryCol), ">", Value(Nat64(9000)))

RoleDeveloper == Comparison(Column(RoleCol), "=", Varchar(<<"D", "e", "v", "e", "l", "o", "p", "e", "r">>))

AgeAbove30 == Comparison(Column(AgeCol), ">", Value(Nat64(30)))

\* Queries as the parser can return them, over columns in and outside the schema.
Queries ==
    {Select(c, <<"e", "m", "p", "l", "o", "y", "e", "e", "s">>, f, o, l) :
        c \in {<<IdCol>>, <<NameCol, IdCol>>, <<AgeCol>>},
        f \in {NoneOf(Varchar(<<>>)), SomeOf(SalaryAbove9000), SomeOf(RoleDeveloper),
               SomeOf(AgeAbove30)},
        o \in {NoneOf(<<>>), SomeOf(NameCol), SomeOf(SalaryCol), SomeOf(AgeCol)},
        l \in {NoneOf(Zero64)} \cup {SomeOf(Nat64(n)) : n \in 0..MaxLimit}}

\* The queries of main.
QueryIvy ==
    <<"S", "E", "L", "E", "C", "T", " ", "i", "d", " ", "F", "R", "O", "M", " ", "e",
      "x", "a", "m", "p", "l", "e", " ", "W", "H", "E", "R", "E", " ", "n", "a", "m",
      "e", " ", "=", " ", "'", "I", "v", "y", "'", " ", "L", "I", "M", "I", "T", " ",
      "1">>

QueryDeveloper ==
    <<"S", "E", "L", "E", "C", "T", " ", "n", "a", "m", "e", " ", "F", "R", "O", "M",
      " ", "e", "m", "p", "l", "o", "y", "e", "e", "s", " ", "W", "H", "E", "R", "E",
      " ", "r", "o", "l", "e", " ", "=", " ", "'", "D", "e", "v", "e", "l", "o", "p",
      "e", "r", "'">>

QuerySalary ==
    <<"S", "E", "L", "E", "C", "T", " ", "i", "d", " ", "F", "R", "O", "M", " ", "e",
      "m", "p", "l", "o", "y", "e", "e", "s", " ", "W", "H", "E", "R", "E", " ", "s",
      "a", "l", "a", "r", "y", " ", ">", " ", "9", "0", "0", "0", " ", "L", "I", "M",
      "I", "T", " ", "3">>

QueryOrderBy ==
    <<"S", "E", "L", "E", "C", "T", " ", "i", "d", " ", "F", "R", "O", "M", " ", "e",
      "m", "p", "l", "o", "y", "e", "e", "s", " ", "W", "H", "E", "R", "E", " ", "s",
      "a", "l", "a", "r", "y", " ", ">", " ", "1", "0", "0", "0", "0", " ", "O", "R",
      "D", "E", "R", "B", "Y", " ", "n", "a", "m", "e">>

\* Queries naming a column outside the schema.
QueryWhereAge ==
    <<"S", "E", "L", "E", "C", "T", " ", "i", "d", " ", "F", "R", "O", "M", " ", "e",
      "m", "p", "l", "o", "y", "e", "e", "s", " ", "W", "H", "E", "R", "E", " ", "a",
      "g", "e", " ", ">", " ", "3", "0">>

QuerySelectAge ==
    <<"S", "E", "L", "E", "C", "T", " ", "a", "g", "e", " ", "F", "R", "O", "M", " ",
      "e", "m", "p", "l", "o", "y", "e", "e", "s">>

QueryOrderByAge ==
    <<"S", "E", "L", "E", "C", "T", " ", "i", "d", " ", "F", "R", "O", "M", " ", "e",
      "m", "p", "l", "o", "y", "e", "e", "s", " ", "O", "R", "D", "E", "R", "B", "Y",
      " ", "a", "g", "e">>

\* A query text as one writes it: the keywords in capitals, the columns
\* separated by commas, an expression without parentheses, each operand and
\* operator separated by one space.
RECURSIVE ExprText(_)
ExprText(expr) ==
    CASE expr.tag = "Column" -> expr.name
      [] expr.tag = "Value" -> ToString64(expr.val)
      [] expr.tag = "Varchar" -> <<"'">> \o expr.s \o <<"'">>
      [] expr.tag = "Comparison" ->
            ExprText(expr.left) \o <<" ">> \o <<expr.op>> \o <<" ">> \o ExprText(expr.right)
      [] expr.tag = "And" ->
            ExprText(expr.left) \o <<" ", "A", "N", "D", " ">> \o ExprText(expr.right)
      [] expr.tag = "Or" ->
            ExprText(expr.left) \o <<" ", "O", "R", " ">> \o ExprText(expr.right)

RECURSIVE ColumnsText(_)
ColumnsText(columns) ==
    IF Len(columns) = 1 THEN columns[1]
    ELSE columns[1] \o <<",">> \o ColumnsText(Tail(columns))

QueryText(q) ==
    <<"S", "E", "L", "E", "C", "T", " ">> \o ColumnsText(q.columns) \o <<" ", "F", "R", "O", "M", " ">> \o q.table
    \o (IF q.filter.some THEN <<" ", "W", "H", "E", "R", "E", " ">> \o ExprText(q.filter.v) ELSE <<>>)
    \o (IF q.order_by.some THEN <<" ", "O", "R", "D", "E", "R", "B", "Y", " ">> \o q.order_by.v ELSE <<>>)
    \o (IF q.limit.some THEN <<" ", "L", "I", "M", "I", "T", " ">> \o ToString64(q.limit.v) ELSE <<>>)

EmployeesTable == <<"e", "m", "p", "l", "o", "y", "e", "e", "s">>

\* Queries with every subset of the optional clauses.
ClauseQueries ==
    {Select(c, t, f, o, l) :
        c \in {<<IdCol>>, <<NameCol, IdCol>>},
        t \in {EmployeesTable, <<"t">>},
        f \in {NoneOf(Varchar(<<>>)), SomeOf(SalaryAbove9000), SomeOf(RoleDeveloper)},
        o \in {NoneOf(<<>>), SomeOf(NameCol)},
        l \in {NoneOf(Zero64), SomeOf(Nat64(0)), SomeOf(Nat64(3))}}

\* The expression one reads in `a op1 b op2 c` when the operators apply from
\* left to right.
Binary(op, l, r) ==
    CASE op = "AND" -> And(l, r) [] op = "OR" -> Or(l, r) [] OTHER -> Comparison(l, op, r)

BinaryOps == {"=", ">", "<", "AND", "OR"}

ChainQueries ==
    {Select(<<IdCol>>, EmployeesTable,
            SomeOf(Binary(op2, Binary(op1, Column(IdCol), Value(Nat64(1))), c)),
            NoneOf(<<>>), NoneOf(Zero64)) :
        op1 \in BinaryOps, op2 \in BinaryOps, c \in {Column(NameCol), Varchar(<<"x">>)}}

\* WHERE c1 op1 v1 AND c2 op2 v2, and with OR.
TwoComparisons ==
    {Binary(logic, Comparison(Column(SalaryCol), op1, Value(Nat64(10000))), second) :
        logic \in {"AND", "OR"}, op1 \in {"=", ">", "<"},
        second \in {RoleDeveloper, Comparison(Column(IdCol), "<", Value(Nat64(5))),
                    Comparison(Column(IdCol), ">", Value(Nat64(5)))}}

WhereQueries ==
    {Select(<<IdCol>>, EmployeesTable, SomeOf(e), NoneOf(<<>>), NoneOf(Zero64)) :
        e \in TwoComparisons}

\* The written queries: what is written, as a Query, and of which kind.
Written == {[shape |-> "Clauses", q |-> q] : q \in ClauseQueries}
           \cup {[shape |-> "Chain", q |-> q] : q \in ChainQueries}
           \cup {[shape |-> "Where", q |-> q] : q \in WhereQueries}

\* A text literal without its closing quote.
QueryUnterminated ==
    <<"S", "E", "L", "E", "C", "T", " ", "i", "d", " ", "F", "R", "O", "M", " ", "e",
      "m", "p", "l", "o", "y", "e", "e", "s", " ", "W", "H", "E", "R", "E", " ", "n",
      "a", "m", "e", " ", "=", " ", "'", "I", "v", "y">>

QueryTexts ==
    {QueryUnterminated, QueryIvy, QueryDeveloper, QuerySalary, QueryOrderBy, QueryWhereAge,
     QuerySelectAge, QueryOrderByAge}

\* Queries that order all rows by one column of the schema.
OrderQueries ==
    {Select(<<IdCol>>, EmployeesTable, NoneOf(Varchar(<<>>)), SomeOf(o), NoneOf(Zero64)) :
        o \in {IdCol, NameCol, SalaryCol}}

\* Rows with ids of one and of two digits, and a row of the id alone.
KeyData == SeqsUpTo({Employees[2], Employees[3], Employees[10], <<<<"3">>>>}, MaxRows)

\* A query text of main, a Query handed to plan, or a written query to tokenize
\* and parse.
QueryInit ==
    /\ \/ /\ text \in QueryTexts
          /\ query = NoQuery
          /\ data \in {Employees, <<>>}
          /\ pc = "parse"
          /\ build = NoBuild
       \/ /\ text = <<>>
          /\ query \in Queries
          /\ data \in EmployeeData
          /\ pc = "plan"
          /\ build = NoBuild
       \/ /\ build \in Written
          /\ text = QueryText(build.q)
          /\ query = NoQuery
          /\ data \in {SubSeq(Employees, 1, 4), <<>>}
          /\ pc = "parse"
       \/ /\ build \in {[shape |-> "OrderBy", q |-> q] : q \in OrderQueries}
          /\ text = QueryText(build.q)
          /\ query = NoQuery
          /\ data \in KeyData
          /\ pc = "parse"
    /\ pipeline = NoPipeline
    /\ results = <<>>
    /\ sinceOpen = <<>>
    /\ last = NoCall
    /\ calls = NoCalls
    /\ cpu = NoCpu
    /\ mem = NoMem

\* The queries main runs one after the other on its data.
MaxQueries == 2

\* main's for loop: the results were returned, and the next query text is run
\* on the same data with a new parser, executor, pipeline and results.
NextQuery ==
    /\ pc = "done"
    /\ build = NoBuild
    /\ text # <<>>
    /\ calls.close < MaxQueries
    /\ text' \in QueryTexts
    /\ query' = NoQuery
    /\ pipeline' = NoPipeline
    /\ results' = <<>>
    /\ sinceOpen' = <<>>
    /\ last' = NoCall
    /\ pc' = "parse"
    /\ UNCHANGED <<data, build, calls, cpu, mem>>

QueryNext ==
    Parse \/ PlanQuery \/ ExecuteOpen \/ ExecuteNext \/ ExecuteClose \/ NextQuery

QuerySpec == QueryInit /\ [][QueryNext]_vars

\* A statement of execute is to run: one of its three actions is enabled.
Executing == pc \in {"open", "next", "close"}

\* execute is straight-line code around one loop: a statement it has reached
\* is run. This is WF_vars(ExecuteOpen \/ ExecuteNext \/ ExecuteClose) with
\* ENABLED written out as Executing.
ExecuteSpec ==
    /\ QuerySpec
    /\ \/ []<>(~Executing)
       \/ []<><<ExecuteOpen \/ ExecuteNext \/ ExecuteClose>>_vars

\* i64::MIN and i64::MAX
MinI64 == <<SignBit, 0, 0, 0>>

MaxI64 == <<SignBit - 1, Limb - 1, Limb - 1, Limb - 1>>

\* Salaries around the routine's constant, of both signs, at the ends of i64 and
\* with low limbs on the other side of 9000 than the value.
Salaries ==
    {Int64(n) : n \in {-9001, -9000, -1, 0, 1, 8000, 8999, 9000, 9001, 10000}}
    \cup {MinI64, MaxI64, <<0, 1, 0, 0>>, <<0, 0, 1, 0>>, <<Limb - 1, Limb - 1, 0, 9001>>,
          <<SignBit, 0, 0, 9001>>}

\* Rows of the test's shape, vec![1, 2, 3, salary], and one with other items.
Int64Rows ==
    {<<Int64(1), Int64(2), Int64(3), s>> : s \in Salaries}
    \cup {<<Int64(-1), MaxI64, Nat64(9001), s>> : s \in Salaries}

\* Where the test's row and the caller's stack lie.
RowBase == <<0, 0, 32, 0>>

StackTop == <<0, 32767, 65535, 65520>>

\* The test before compile_filter: the row lies in memory, the return address
\* of the call to come on top of the stack.
JitInit ==
    /\ data \in {<<row>> : row \in Int64Rows}
    /\ mem = [a \in {ItemAddr(RowBase, i) : i \in 0..3} \cup {StackTop} |->
                IF a = StackTop THEN ReturnAddress
                ELSE data[1][1 + CHOOSE i \in 0..3 : ItemAddr(RowBase, i) = a]]
    /\ cpu = NoCpu
    /\ pc = "compile"
    /\ text = <<>>
    /\ query = NoQuery
    /\ build = NoBuild
    /\ pipeline = NoPipeline
    /\ results = <<>>
    /\ sinceOpen = <<>>
    /\ last = NoCall
    /\ calls = NoCalls

JitNext ==
    \/ Compile \/ CallFilter(RowBase, StackTop) \/ DropBuffer
    \/ PushRbp \/ MovRbpRsp \/ MovRaxSalary \/ CmpRax9000 \/ JleFail \/ MovRax1
    \/ JmpEnd \/ MovRax0 \/ MovRspRbp \/ PopRbp \/ Ret

JitSpec == JitInit /\ [][JitNext]_vars

---------------------------------------------------------------------------
(* The callers of the native scan and project routines: JitCompiler::new   *)
(* over a flat buffer, compile_scan or compile_project, and a call of the  *)
(* routine. mem holds the words of the two buffers the run reaches and the *)
(* properties read.                                                        *)

MaxCount == 3

\* Where the flat rows and the destination lie.
SrcBase == <<0, 0, 48, 0>>

DstBase == <<0, 0, 56, 0>>

\* Row counts that do not fit the 32-bit immediate: 2^31 and 2^32 + 1.
WideCounts == {<<0, 0, SignBit, 0>>, <<0, 1, 0, 1>>}

\* The items of the buffers of a wide count that mem holds.
ViewLen == 2

\* The flat rows of the test's shape: k rows of width w, the field j of row i
\* a number that tells both.
FlatRows(k, w) == [n \in 1..(k * w) |-> Nat64((10 * (1 + ((n - 1) \div w))) + ((n - 1) % w))]

\* A run of a routine: row_data and row_count as given to JitCompiler::new,
\* the destination and the code compiled.
Run(shape, row_count, src, data_len, width, column, code) ==
    [shape |-> shape, row_count |-> row_count, src |-> src, data_len |-> data_len,
     width |-> width, column |-> column, row_data |-> SrcBase, data_ptr |-> DstBase,
     code |-> code]

Runs ==
    {Run("compile_scan", Nat64(Len(src)), src, Len(src) + more, 1, 0,
         CompileScan(Nat64(Len(src)))) :
        src \in SeqsUpTo({Int64(-1), Nat64(7)}, MaxCount), more \in {0, 1}}
    \cup {Run("compile_scan", n, [i \in 1..ViewLen |-> Nat64(6 + i)], ViewLen, 1, 0,
              CompileScan(n)) : n \in WideCounts}
    \cup UNION {{Run("compile_project", Nat64(k * w), FlatRows(k, w), k + more, w, c,
                     CompileProject(Nat64(k * w), c)) :
                    c \in 0..(w - 1), more \in {0, 1}} :
                 k \in 0..MaxCount, w \in {2, 4}}

\* The test calls exec_fn(): the return address is on top of the stack, the
\* destination is zeroed, and the registers hold what the caller left.
LoopInit ==
    /\ build \in Runs
    /\ data = build.src
    /\ mem = [a \in {ItemAddr(SrcBase, i - 1) : i \in 1..Len(build.src)}
                    \cup {ItemAddr(DstBase, i - 1) : i \in 1..build.data_len}
                    \cup {StackTop} |->
                IF a = StackTop THEN ReturnAddress
                ELSE IF \E i \in 1..Len(build.src) : ItemAddr(SrcBase, i - 1) = a
                THEN build.src[CHOOSE i \in 1..Len(build.src) : ItemAddr(SrcBase, i - 1) = a]
                ELSE Zero64]
    /\ \E left \in {MinI64, Nat64(1)} :
          cpu = [ip |-> "mov rsi, row_data", rax |-> left, rcx |-> left, rsi |-> left,
                 rdi |-> left, rsp |-> StackTop, iters |-> 0,
                 flags |-> [zf |-> FALSE, sf |-> FALSE, of |-> FALSE, cf |-> FALSE]]
    /\ pc = "jit"
    /\ text = <<>>
    /\ query = NoQuery
    /\ pipeline = NoPipeline
    /\ results = <<>>
    /\ sinceOpen = <<>>
    /\ last = NoCall
    /\ calls = NoCalls

LoopNext ==
    \/ MovRsiRowData \/ MovRdiData \/ MovRcx0 \/ CmpRcxBound \/ JgeExit \/ MovRaxItem
    \/ MovRaxColumn \/ MovItemRax \/ AddRcx1 \/ IncRcx \/ JmpLoopStart \/ Ret

LoopSpec == LoopInit /\ [][LoopNext]_vars

---------------------------------------------------------------------------
(* The caller of eval: plan's closure, |row| Self::eval(expr.clone(), row), *)
(* called on one row.                                                      *)

EvalOperands ==
    {Column(IdCol), Column(NameCol), Column(AgeCol), Value(Nat64(7)),
     Varchar(<<"0", "0", "7">>), Varchar(<<"a">>)}

EvalComparisons ==
    {Comparison(l, op, r) : l \in EvalOperands, r \in EvalOperands, op \in {"=", ">", "<"}}

\* Sub-expressions that are true or false by the row, that are always true, and
\* that panic: a column outside the schema, a name compared as a number.
EvalAtoms ==
    {Comparison(Column(IdCol), "=", Varchar(<<"7">>)), Column(NameCol),
     Comparison(Column(AgeCol), ">", Value(Nat64(30))),
     Comparison(Column(NameCol), ">", Value(Nat64(7)))}

EvalExprs ==
    EvalComparisons
    \cup {And(a, b) : a \in EvalAtoms, b \in EvalAtoms}
    \cup {Or(a, b) : a \in EvalAtoms, b \in EvalAtoms}
    \cup {Not(a) : a \in EvalAtoms}

EvalRows ==
    {<<<<"7">>, <<"a">>, <<"D", "e", "v">>, <<"9", "0", "0", "0">>>>,
     <<<<"0", "0", "7">>, <<"B", "o", "b">>, <<"D", "e", "v">>, <<"9", "0", "0", "1">>>>}

\* Expressions that are no comparison: a column of the schema and one
\* outside it, numbers with 0 among them, texts with the empty one among them.
EvalBare ==
    {Column(IdCol), Column(SalaryCol), Column(AgeCol), Value(Zero64), Value(Nat64(7)),
     Value(Int64(-1)), Varchar(<<>>), Varchar(<<"0">>), Varchar(<<"a">>)}

\* Rows with fewer fields than the schema has.
ShortRows == {<<>>, <<<<"7">>>>}

EvalInit ==
    /\ \/ /\ query \in {Select(<<IdCol>>, <<"t">>, SomeOf(e), NoneOf(<<>>), NoneOf(Zero64)) :
                          e \in EvalExprs}
          /\ data \in {<<row>> : row \in EvalRows}
       \/ /\ query \in {Select(<<IdCol>>, <<"t">>, SomeOf(e), NoneOf(<<>>), NoneOf(Zero64)) :
                          e \in EvalBare}
          /\ data \in {<<row>> : row \in EvalRows \cup ShortRows}
    /\ pc = "eval"
    /\ text = <<>>
    /\ build = NoBuild
    /\ pipeline = NoPipeline
    /\ results = <<>>
    /\ sinceOpen = <<>>
    /\ last = NoCall
    /\ calls = NoCalls
    /\ cpu = NoCpu
    /\ mem = NoMem

\* The closure is called on the row: eval(expr, row) returns or panics.
EvalRow ==
    /\ pc = "eval"
    /\ last' = [call |-> "eval", st |-> Eval(query.filter.v, data[1]), row |-> data[1]]
    /\ pc' = "evaluated"
    /\ UNCHANGED <<text, query, data, build, pipeline, results, sinceOpen, calls, cpu, mem>>

EvalNext == EvalRow

EvalSpec == EvalInit /\ [][EvalNext]_vars

---------------------------------------------------------------------------
(* Properties.                                                             *)

Min(a, b) == IF a < b THEN a ELSE b

\* The first n rows of a sequence, all of them where it has fewer.
FirstRows(rows, n) == SubSeq(rows, 1, Min(n, Len(rows)))

\* The rows of a sequence a predicate holds on, in their order.
Matching(rows, pred) == SelectSeq(rows, LAMBDA r : Eval(pred, r) = "true")

Perms(n) == {p \in [1..n -> 1..n] : \A i, j \in 1..n : i # j => p[i] # p[j]}

\* The stable sort of a sequence by a column: the one rearrangement in which a
\* row comes before another when it compares less, and before an equal one
\* when it came before it.
StableSorted(rows, col) ==
    LET p == CHOOSE q \in Perms(Len(rows)) :
                \A i, j \in 1..Len(rows) :
                    i < j => \/ RowCmp(rows[q[i]], rows[q[j]], col) = "Less"
                             \/ /\ RowCmp(rows[q[i]], rows[q[j]], col) = "Equal"
                                /\ q[i] < q[j]
    IN  [i \in 1..Len(rows) |-> rows[p[i]]]

\* The matching pairs of L x R, by the index in L first and in R second, each as
\* the fields of l followed by the fields of r.
JoinPairs(L, R, cond) ==
    LET pairs == [k \in 1..(Len(L) * Len(R)) |->
                    <<L[((k - 1) \div Len(R)) + 1], R[((k - 1) % Len(R)) + 1]>>]
        kept == SelectSeq(pairs, LAMBDA pr : JoinCondition(cond, pr[1], pr[2]))
    IN  [k \in 1..Len(kept) |-> kept[k][1] \o kept[k][2]]

\* The rows the upstream of the caller's Limit returns.
LimitInput(b) == IF b.shape = "LimitFilter" THEN Matching(b.left, b.pred) ELSE b.left

\* C1: a Limit drained to end-of-stream has returned exactly the first
\* min(N, |S|) rows of its upstream's sequence S, in upstream order.
LimitReturnsFirstRows ==
    (build.shape \in {"Limit", "LimitFilter"} /\ pipeline.g.eosEver)
        => results = FirstRows(LimitInput(build), build.limit)

LimitCutsUpstream ==
    /\ build.shape = "Limit"
    /\ pipeline.g.eosEver
    /\ build.limit = 1
    /\ build.left = <<RowA, RowB>>
    /\ results = <<RowA>>

\* What a query returns on a data set: the filter on the scanned rows, the sort
\* on the filtered rows, the limit on the sorted rows, the projection last,
\* each absent clause skipped.
Filtered(q, rows) == IF q.filter.some THEN Matching(rows, q.filter.v) ELSE rows

Sorted(q, rows) ==
    IF q.order_by.some THEN StableSorted(rows, ColumnIndex(q.order_by.v)) ELSE rows

Limited(q, rows) == IF q.limit.some THEN FirstRows(rows, AsUsize(q.limit.v)) ELSE rows

Projected(q, rows) ==
    [i \in 1..Len(rows) |->
        [j \in 1..Len(q.columns) |-> rows[i][ColumnIndex(q.columns[j]) + 1]]]

\* C2: the rows plan followed by execute returns are
\* Project(Limit(Sort(Filter(Scan(data))))), each absent clause skipped.
ExecuteReturnsPlanOrder ==
    pc = "done" => results = Projected(query, Limited(query, Sorted(query,
                                 Filtered(query, data))))

ExecutedAllClauses ==
    /\ pc = "done"
    /\ query.filter = SomeOf(SalaryAbove9000)
    /\ query.order_by = SomeOf(NameCol)
    /\ query.limit = SomeOf(Nat64(1))
    /\ query.columns = <<NameCol, IdCol>>
    /\ data = <<Employees[2], Employees[1]>>
    /\ results = <<<<Employees[1][2], Employees[1][1]>>>>

\* One-field rows of the given texts.
Rows1(fields) == [i \in 1..Len(fields) |-> <<fields[i]>>]

\* C3: on the employee data set of main, the four queries of main return [9];
\* 1, 2, 4; Bob, Charlie, Frank, Hannah; and 1, 4, 5, 7, 9, 10.
MainQueriesReturn ==
    (pc = "done" /\ data = Employees) =>
        /\ text = QueryIvy => results = Rows1(<< <<"9">> >>)
        /\ text = QuerySalary => results = Rows1(<< <<"1">>, <<"2">>, <<"4">> >>)
        /\ text = QueryDeveloper =>
              results = Rows1(<< <<"B", "o", "b">>, <<"C", "h", "a", "r", "l", "i", "e">>,
                                 <<"F", "r", "a", "n", "k">>,
                                 <<"H", "a", "n", "n", "a", "h">> >>)
        /\ text = QueryOrderBy =>
              results = Rows1(<< <<"1">>, <<"4">>, <<"5">>, <<"7">>, <<"9">>,
                                 <<"1", "0">> >>)

MainSalaryQueryDone ==
    /\ pc = "done"
    /\ data = Employees
    /\ text = QuerySalary
    /\ Len(results) = 3

\* C4: a Join drained after open() has returned one row for every pair (l, r)
\* of L x R the condition holds on and no other row, each the fields of l
\* followed by the fields of r, by the index of l first and of r second.
JoinReturnsMatchingPairs ==
    (build.shape = "Join" /\ pipeline.g.opens > 0 /\ pipeline.g.eosOpen)
        => sinceOpen = JoinPairs(build.left, build.right, build.cond)

JoinDrained ==
    /\ build.shape = "Join"
    /\ pipeline.g.opens > 0
    /\ pipeline.g.eosOpen
    /\ build.cond = "ne0"
    /\ build.left = <<RowA, RowB>>
    /\ build.right = <<RowB, RowA>>
    /\ sinceOpen = <<RowA \o RowB, RowB \o RowA>>

DecimalRow(items) == [i \in 1..Len(items) |-> ToString64(items[i])]

\* C6: on every 4-field row of i64 the routine returns 1 exactly when eval is
\* true for salary > 9000 on the row of the same values as decimal text, 0
\* exactly when eval is false, no other value, and leaves the row as it was.
RoutineAgreesWithEval ==
    cpu.ip = "returned" =>
        /\ cpu.rax \in {Nat64(0), Nat64(1)}
        /\ (cpu.rax = Nat64(1)) = (Eval(SalaryAbove9000, DecimalRow(data[1])) = "true")
        /\ (cpu.rax = Nat64(0)) = (Eval(SalaryAbove9000, DecimalRow(data[1])) = "false")
        /\ ItemsAt(mem, cpu.rdi) = data[1]

RoutineReturnedOne ==
    /\ cpu.ip = "returned"
    /\ cpu.rax = Nat64(1)
    /\ data[1][4] = Nat64(9001)

\* C7 as stated: no operator of a pipeline returns a row from a next() call
\* made after one of its next() calls returned end-of-stream.
EndOfStreamIsFinal == \A op \in Owned(pipeline) : ~op.g.revived

\* C7: an operator that has returned end-of-stream returns end-of-stream from
\* every later next() call, as long as open() is not called on it after that
\* end-of-stream.
EndOfStreamIsFinalUntilOpen == \A op \in Owned(pipeline) : ~op.g.revivedOpen

JoinAskedAfterEnd ==
    /\ build.shape = "Join"
    /\ pipeline.g.opens > 0
    /\ pipeline.g.repeated
    /\ Len(sinceOpen) > 0

\* C8: close() on an operator calls close() on each of its upstream operators,
\* so no operator has been closed while an upstream of it has not.
CloseReachesUpstream ==
    \A op \in Owned(pipeline) :
        op.g.closes > 0 => \A u \in Upstream(op) : u.g.closes > 0

\* C9: in plan followed by execute, no operator of the pipeline receives a
\* next() call before it has received an open() call.
OpenBeforeNext == \A op \in Owned(pipeline) : ~op.g.early

\* The column names of an expression.
RECURSIVE ExprColumns(_)
ExprColumns(expr) ==
    CASE expr.tag = "Column" -> {expr.name}
      [] expr.tag \in {"And", "Or", "Comparison"} ->
            ExprColumns(expr.left) \cup ExprColumns(expr.right)
      [] expr.tag = "Not" -> ExprColumns(expr.expr)
      [] OTHER -> {}

NamesUnknownColumn(q) ==
    \/ \E i \in 1..Len(q.columns) : ~InSchema(q.columns[i])
    \/ q.order_by.some /\ ~InSchema(q.order_by.v)
    \/ q.filter.some /\ \E c \in ExprColumns(q.filter.v) : ~InSchema(c)

\* C10: for a query naming a column outside the schema in its SELECT list, its
\* WHERE expression or its ORDERBY clause, plan does not return: execute is
\* never entered, whatever the data set.
UnknownColumnFailsPlan ==
    NamesUnknownColumn(query) => (pc \in {"parse", "plan", "panic"} /\ calls.open = 0)

\* A text that parses as an i64.
IsInteger(str) == ParseI64(str).ok

\* Both sides of the Comparison that was evaluated resolve to a string.
SidesResolve ==
    /\ pc = "evaluated"
    /\ query.filter.v.tag = "Comparison"
    /\ Resolve(query.filter.v.left, data[1]).ok
    /\ Resolve(query.filter.v.right, data[1]).ok

LeftSide == Resolve(query.filter.v.left, data[1]).s

RightSide == Resolve(query.filter.v.right, data[1]).s

Bool(b) == IF b THEN "true" ELSE "false"

\* C11: a Comparison with '=' whose sides both parse as i64 is the equality of
\* the integers; the strings are compared only when a side does not parse.
EqualComparesIntegers ==
    (SidesResolve /\ query.filter.v.op = "=") =>
        last.st = IF IsInteger(LeftSide) /\ IsInteger(RightSide)
                  THEN Bool(ParseI64(LeftSide).val = ParseI64(RightSide).val)
                  ELSE Bool(LeftSide = RightSide)

\* C12: a Comparison with '>' or '<' of which a side does not parse as i64
\* compares the sides as strings and returns a boolean.
OrderFallsBackToStrings ==
    (SidesResolve /\ ~(IsInteger(LeftSide) /\ IsInteger(RightSide))) =>
        /\ query.filter.v.op = ">" => last.st = Bool(StrCmp(LeftSide, RightSide) = "Greater")
        /\ query.filter.v.op = "<" => last.st = Bool(StrCmp(LeftSide, RightSide) = "Less")

\* C13: Not(e) on a row is the negation of e on the row.
NotNegates ==
    (pc = "evaluated" /\ query.filter.v.tag = "Not"
        /\ Eval(query.filter.v.expr, data[1]) \in {"true", "false"})
        => last.st = Bool(Eval(query.filter.v.expr, data[1]) = "false")

\* C14: And(l, r) with l false is false and Or(l, r) with l true is true
\* whatever r is, a fatal r included: r is not evaluated.
AndOrShortCircuit ==
    pc = "evaluated" =>
        /\ (query.filter.v.tag = "And" /\ Eval(query.filter.v.left, data[1]) = "false")
              => last.st = "false"
        /\ (query.filter.v.tag = "Or" /\ Eval(query.filter.v.left, data[1]) = "true")
              => last.st = "true"

AndSkippedFatalRight ==
    /\ pc = "evaluated"
    /\ query.filter.v = And(Comparison(Column(IdCol), "=", Varchar(<<"7">>)),
                            Comparison(Column(AgeCol), ">", Value(Nat64(30))))
    /\ data[1][1] = <<"0", "0", "7">>
    /\ last.st = "false"

\* C15: WHERE c1 op1 v1 AND c2 op2 v2 (and with OR), written without
\* parentheses, parsed, planned and executed, does not fail and returns the
\* rows on which both comparisons (at least one) hold.
TwoComparisonsReturnMatches ==
    build.shape = "Where" =>
        /\ pc # "panic"
        /\ pc = "done" => results = Projected(build.q, Filtered(build.q, data))

\* C16: a op1 b op2 c parses to the tree of (a op1 b) op2 c.
ExprIsLeftAssociative ==
    (build.shape = "Chain" /\ pc # "parse") => query = build.q

\* C17: SELECT c1,...,cn FROM t with any subset of WHERE, ORDERBY and LIMIT
\* parses to the Query with these columns in their order, this table, and
\* filter, order_by and limit present for the clauses written, with the
\* written values.
ParseYieldsWrittenClauses ==
    (build.shape = "Clauses" /\ pc # "parse") => query = build.q

ParsedAllClauses ==
    /\ build.shape = "Clauses"
    /\ pc = "plan"
    /\ query = Select(<<NameCol, IdCol>>, EmployeesTable, SomeOf(RoleDeveloper),
                      SomeOf(NameCol), SomeOf(Nat64(3)))

\* C18: a query text with a text literal that has no closing quote yields no
\* Query: the parse ends in a panic and nothing is planned.
UnterminatedLiteralRejected ==
    text = QueryUnterminated => (pc \in {"parse", "panic"} /\ query = NoQuery)

\* C19: a Project given a column index that is not smaller than the width of
\* an incoming row does not return: no row it returns has fewer fields than
\* the columns requested.
ProjectKeepsWidth ==
    build.shape = "Project" =>
        \A i \in 1..Len(results) : Len(results[i]) = Len(build.columns)

\* C20: a Sort pulls no row from its upstream before open() is called on it.
SortPullsOnOpen ==
    \A op \in Owned(pipeline) :
        (op.kind = "Sort" /\ op.g.opens = 0) => op.dropped.g.nexts = 0

LimitStopsPulling ==
    /\ [](pipeline.kind = "Limit" =>
             /\ pipeline.input.g.out <= pipeline.limit
             /\ pipeline.limit = 0 => pipeline.input.g.nexts = 0)
    /\ [][(pipeline.kind = "Limit" /\ pipeline.g.out >= pipeline.limit
            /\ last'.call = "next")
             => pipeline'.input.g.nexts = pipeline.input.g.nexts]_vars

LimitAskedAfterLastRow ==
    /\ build.shape = "Limit"
    /\ Len(build.left) = 2
    /\ pipeline.limit = 1
    /\ pipeline.g.out = 1
    /\ pipeline.g.nexts = 3
    /\ pipeline.input.g.nexts = 1

\* C27: successive next() calls on a Scan return the rows given to Scan::new
\* one by one, each equal to the given row, in the given order, and then
\* end-of-stream, whatever the caller does to its own sequence afterwards.
ScanReturnsGivenRows ==
    build.shape = "Scan" =>
        /\ results = SubSeq(build.left, 1, Len(results))
        /\ pipeline.rows = SubSeq(build.left, Len(results) + 1, Len(build.left))
        /\ Len(results) = Min(pipeline.g.nexts, Len(build.left))
        /\ pipeline.g.eosEver = (pipeline.g.nexts > Len(build.left))

ScanDrainedAfterCallerCleared ==
    /\ build.shape = "Scan"
    /\ build.left = <<RowA, RowB>>
    /\ data = <<>>
    /\ pipeline.g.nexts = 1
    /\ results = <<RowA>>
    /\ pipeline.rows = <<RowB>>

\* C28: a Filter drained to end-of-stream has returned exactly the rows of
\* its upstream's sequence the predicate is true on, in upstream order and
\* unmodified; before that, a prefix of them.
FilterReturnsMatchingRows ==
    build.shape = "Filter" =>
        /\ results = SubSeq(Matching(build.left, build.pred), 1, Len(results))
        /\ pipeline.g.eosEver => results = Matching(build.left, build.pred)

FilterDrainedSomeRejected ==
    /\ build.shape = "Filter"
    /\ build.left = <<RowB, RowA>>
    /\ build.pred = PredId1
    /\ pipeline.g.eosEver
    /\ results = <<RowA>>

\* The position in rows of the k-th row the predicate is true on; 0 for k = 0.
RECURSIVE MatchPosition(_, _, _)
MatchPosition(rows, pred, k) ==
    IF k = 0 THEN 0
    ELSE IF Eval(pred, Head(rows)) = "true"
         THEN 1 + (IF k = 1 THEN 0 ELSE MatchPosition(Tail(rows), pred, k - 1))
         ELSE 1 + MatchPosition(Tail(rows), pred, k)

\* C29: a next() call on a Filter pulls upstream rows up to the first one the
\* predicate is true on, or to the upstream's end; the predicate has been
\* evaluated as many times as the upstream has returned rows.
FilterTestsEachRowOnce ==
    /\ \A op \in Owned(pipeline) :
           op.kind = "Filter" => op.evals = op.input.g.out
    /\ build.shape = "Filter" =>
           pipeline.input.g.out =
               IF pipeline.g.eosEver THEN Len(build.left)
               ELSE MatchPosition(build.left, build.pred, Len(results))

FilterStoppedAtFirstMatch ==
    /\ build.shape = "Filter"
    /\ build.left = <<RowA, RowA>>
    /\ build.pred = PredId1
    /\ pipeline.g.nexts = 1
    /\ pipeline.evals = 1
    /\ pipeline.input.g.nexts = 1

\* The columns of a row, in the order of the column list.
Fields(row, columns) == [j \in 1..Len(columns) |-> row[columns[j] + 1]]

\* C30: a Project whose columns are all smaller than the width of its
\* upstream's rows returns one row per upstream row, in upstream order, the
\* j-th field being field cj of the upstream row, |S| rows when drained; each
\* next() call on it is one next() call on its upstream.
ProjectReturnsColumns ==
    (/\ build.shape = "Project"
     /\ \A j \in 1..Len(build.columns), i \in 1..Len(build.left) :
            build.columns[j] < Len(build.left[i]))
        => /\ Len(results) <= Len(build.left)
           /\ \A i \in 1..Len(results) : results[i] = Fields(build.left[i], build.columns)
           /\ pipeline.g.eosEver => Len(results) = Len(build.left)
           /\ pipeline.input.g.nexts = pipeline.g.nexts

ProjectDrainedTwoColumns ==
    /\ build.shape = "Project"
    /\ build.columns = <<1, 0>>
    /\ build.left = <<RowA, RowB>>
    /\ pipeline.g.eosEver
    /\ results = <<<<<<"a">>, <<"1">>>>, <<<<"b">>, <<"2">>>>>>
    /\ pipeline.input.g.nexts = 3

\* The destination's item i and the source's item i in memory.
DstItem(i) == Load(mem, ItemAddr(build.data_ptr, i))

SrcItem(i) == Load(mem, ItemAddr(build.row_data, i))

\* C23: after the compiled Project routine has run on k rows of width w with
\* a column c < w, the destination's item i is the source's item i * w + c,
\* for every row i.
ProjectRoutineCopiesColumn ==
    (build.shape = "compile_project" /\ cpu.ip = "returned") =>
        \A i \in 0..(Len(build.src) \div build.width - 1) :
            /\ i < build.data_len
            /\ DstItem(i) = build.src[i * build.width + build.column + 1]

\* C24: after the compiled Scan routine has returned, the destination's
\* items below row_count are the source's, no item from row_count on has been
\* written, the source is as it was, and the loop has taken row_count turns.
ScanRoutineCopiesRows ==
    (build.shape = "compile_scan" /\ cpu.ip = "returned") =>
        /\ \A i \in 0..(build.data_len - 1) :
               DstItem(i) = IF ULt64(Nat64(i), build.row_count) THEN build.src[i + 1]
                            ELSE Zero64
        /\ \A i \in 0..(Len(build.src) - 1) : SrcItem(i) = build.src[i + 1]
        /\ Nat64(cpu.iters) = build.row_count

\* What query! returns for a text on a data set, from nothing but the two.
QueryAlone(input, rows) ==
    Drain(OpenOp(Plan(ParseText(input).query, rows).op).op, <<>>).rows

\* C25: no step of parsing, planning or executing a query, and none that
\* aborts, changes the caller's data set; a query run after another on that
\* data set returns what it returns when run on it alone.
QueryKeepsDataSet ==
    /\ [][data' = data]_vars
    /\ []((pc = "done" /\ build = NoBuild /\ text # <<>>)
             => results = QueryAlone(text, data))

SecondQueryDone ==
    /\ pc = "done"
    /\ calls.close = 2
    /\ text = QuerySalary
    /\ data = Employees
    /\ results = <<<<<<"1">>>>, <<<<"2">>>>, <<<<"4">>>>>>

\* The routine is running: the instruction pointer is in the buffer's code.
Running == \E i \in 1..Len(FilterCode) : cpu.ip = FilterCode[i]

\* C26: a compiled plan is Compiled or Disposed and nothing else; its code is
\* what the compiler finalized, in every state after; and the routine at its
\* entry offset runs while the buffer is Compiled only, never once it has been
\* released.
BufferCompiledOrDisposed ==
    pc # "compile" =>
        /\ build.state \in {"Compiled", "Disposed"}
        /\ build.code = FilterCode
        /\ Running => build.state = "Compiled"
        /\ (pc \in {"call", "jit", "ret"}) = (build.state = "Compiled")
        /\ build.state = "Disposed" => cpu.ip = "returned"

BufferDisposedAfterCall ==
    /\ pc = "dropped"
    /\ build.state = "Disposed"
    /\ cpu.ip = "returned"
    /\ cpu.rax = Nat64(1)

\* C31: a Sort drained to end-of-stream has returned a rearrangement of its
\* upstream's sequence, every row as often as the upstream has it, in which no
\* row compares greater than its successor and rows that compare equal are
\* in their upstream order.
SortReturnsStablePermutation ==
    (build.shape = "Sort" /\ pipeline.g.eosEver) =>
        /\ Len(results) = Len(build.left)
        /\ \E p \in Perms(Len(build.left)) :
               /\ \A i \in 1..Len(results) : results[i] = build.left[p[i]]
               /\ \A i \in 1..(Len(results) - 1) :
                      \/ RowCmp(results[i], results[i + 1], build.col) = "Less"
                      \/ /\ RowCmp(results[i], results[i + 1], build.col) = "Equal"
                         /\ p[i] < p[i + 1]

SortDrainedWithTie ==
    /\ build.shape = "Sort"
    /\ build.col = 0
    /\ build.left = <<RowC, RowA>>
    /\ pipeline.g.eosEver
    /\ results = <<RowC, RowA>>

\* The filter of the query returns true or false on every row of the data.
PredicateReturns ==
    query.filter.some => \A i \in 1..Len(data) : Eval(query.filter.v, data[i]) # "panic"

NoJoin == {"Scan", "Filter", "Project", "Limit", "Sort", "LimitSort", "LimitFilter"}

\* C33: the rows a Scan, Filter, Project, Limit or Sort has returned when it
\* returns end-of-stream are those it returns when drained with no open()
\* call at all, however many open() calls were made and wherever.
OpenLeavesRowsAlone ==
    (build.shape \in NoJoin /\ pipeline.g.eosEver)
        => results = Drain(Construct(build), <<>>).rows

OpenedTwiceThenDrained ==
    /\ build.shape = "LimitFilter"
    /\ build.limit = 2
    /\ build.left = <<RowA, RowA>>
    /\ pipeline.g.opens = 2
    /\ ~pipeline.g.early
    /\ pipeline.g.eosEver
    /\ sinceOpen = results
    /\ results = <<RowA, RowA>>

\* The rows the caller had from the pipeline before the last open().
BeforeOpen == SubSeq(results, 1, Len(results) - Len(sinceOpen))

\* C34: a second open() on a Join, after any number of next() calls, leaves
\* the rows of both sides as the first open() loaded them and puts both
\* indices at 0; the Join drained after it returns the rows of the first
\* drain again.
JoinReopenRepeatsRows ==
    /\ [](build.shape = "Join" /\ pipeline.g.opens = 2 =>
             /\ pipeline.left_rows = build.left
             /\ pipeline.right_rows = build.right
             /\ BeforeOpen = SubSeq(JoinPairs(build.left, build.right, build.cond),
                                    1, Len(BeforeOpen))
             /\ pipeline.g.eosOpen =>
                    sinceOpen = JoinPairs(build.left, build.right, build.cond))
    /\ [][(build.shape = "Join" /\ pipeline.g.opens = 1 /\ last'.call = "open") =>
             /\ pipeline'.left_rows = pipeline.left_rows
             /\ pipeline'.right_rows = pipeline.right_rows
             /\ pipeline'.left_index = 0
             /\ pipeline'.right_index = 0]_vars

JoinDrainedTwice ==
    /\ build.shape = "Join"
    /\ build.cond = "eq0"
    /\ build.left = <<RowA, RowB>>
    /\ build.right = <<RowB, RowA>>
    /\ pipeline.g.opens = 2
    /\ pipeline.g.eosOpen
    /\ BeforeOpen = <<RowA \o RowA, RowB \o RowB>>
    /\ sinceOpen = <<RowA \o RowA, RowB \o RowB>>

\* The Joins of the pipeline: the root or its input.
Joins(op) ==
    IF op.kind = "Join" THEN <<op>>
    ELSE IF op.kind \in {"Filter", "Project", "Limit"} /\ op.input.kind = "Join"
    THEN <<op.input>>
    ELSE <<>>

\* C35: in every state a Limit's count is at most its limit and is the number
\* of rows it has returned, a Join's two indices are at most the lengths of
\* its two row sequences, and a next() call leaves both row sequences as they
\* were.
CountsAndIndicesInRange ==
    /\ [](\A op \in Owned(pipeline) :
             /\ op.kind = "Limit" => (op.count <= op.limit /\ op.count = op.g.out)
             /\ op.kind = "Join" => /\ op.left_index <= Len(op.left_rows)
                                    /\ op.right_index <= Len(op.right_rows))
    /\ [][(last'.call = "next" /\ Joins(pipeline) # <<>>) =>
             /\ Joins(pipeline')[1].left_rows = Joins(pipeline)[1].left_rows
             /\ Joins(pipeline')[1].right_rows = Joins(pipeline)[1].right_rows]_vars

LimitFullJoinAtEnd ==
    /\ build.shape = "LimitJoin"
    /\ pipeline.count = 1
    /\ pipeline.limit = 1
    /\ pipeline.g.nexts = 3
    /\ pipeline.input.left_index = 0
    /\ pipeline.input.right_index = 1
    /\ Len(pipeline.input.right_rows) = 1

\* C36: a filter expression that is a bare Column, Value or Varchar is true
\* on every row, whatever the name, the number or the text and whatever
\* fields the row has, so a Filter with it keeps every row.
BareExpressionIsTrue ==
    (pc = "evaluated" /\ query.filter.v.tag \in {"Column", "Value", "Varchar"}) =>
        /\ last.st = "true"
        /\ Matching(data, query.filter.v) = data

BareUnknownColumnOnEmptyRow ==
    /\ pc = "evaluated"
    /\ query.filter.v = Column(AgeCol)
    /\ data = <<<<>>>>
    /\ last.st = "true"

\* Table identifiers: the two of main's queries, a single letter, and one that
\* is also a column's name.
Tables == {EmployeesTable, <<"e", "x", "a", "m", "p", "l", "e">>, <<"t">>, IdCol}

\* C37: a query that has returned its rows has returned the rows the query
\* with any other table identifier after FROM, and the same text otherwise,
\* returns over the same data set.
TableNameIsIgnored ==
    (build.shape = "Clauses" /\ pc = "done") =>
        \A t \in Tables :
            results = QueryAlone(QueryText([build.q EXCEPT !.table = t]), data)

OtherTableSameRows ==
    /\ build.shape = "Clauses"
    /\ pc = "done"
    /\ build.q = Select(<<NameCol, IdCol>>, <<"t">>, SomeOf(RoleDeveloper), SomeOf(NameCol),
                        SomeOf(Nat64(3)))
    /\ Len(results) = 2
    /\ results = QueryAlone(QueryText([build.q EXCEPT !.table = EmployeesTable]), data)

\* A text is not behind another in the lexicographic order of their
\* characters: it is a prefix of it, or has the smaller character where the
\* two first differ.
LexLeq(a, b) ==
    \E n \in 0..Min(Len(a), Len(b)) :
        /\ \A m \in 1..n : a[m] = b[m]
        /\ \/ n = Len(a)
           \/ /\ n < Len(b)
              /\ Ord(a[n + 1]) < Ord(b[n + 1])

\* Rows in ascending order of the text of field i, those without it first.
OrderedByText(rows, i) ==
    \A j, k \in 1..Len(rows) :
        j < k => /\ Len(rows[k]) <= i => Len(rows[j]) <= i
                 /\ (Len(rows[j]) > i /\ Len(rows[k]) > i)
                       => LexLeq(rows[j][i + 1], rows[k][i + 1])

\* C38: the rows of the Sort plan builds for ORDERBY are in ascending
\* lexicographic order of the key field's text, whichever column the key is,
\* and the rows without the key field come before all rows that have it.
PlanSortsByText ==
    \A op \in Owned(pipeline) :
        (op.kind = "Sort" /\ op.g.nexts = 0)
            => OrderedByText(op.sorted_rows, ColumnIndex(query.order_by.v))

TenBeforeTwo ==
    /\ pc = "done"
    /\ build.shape = "OrderBy"
    /\ query.order_by.v = IdCol
    /\ data = <<Employees[2], Employees[10]>>
    /\ results = <<<<<<"1", "0">>>>, <<<<"2">>>>>>

====
